---- MODULE Spec2Model ----
(***************************************************************************)
(* Model of the BuildFlow backend chat endpoint                            *)
(* (src/backend/app/routes/chat.py) with the module-level configuration it *)
(* reads (src/backend/app/env.py, src/backend/app/supabase_client.py).     *)
(*                                                                         *)
(* Text is modelled at character level: a Python str is a sequence of      *)
(* one-character strings, so that find/rfind/count/strip, the two regular   *)
(* expressions and json.loads are computed as the code computes them.      *)
(* Python values are tagged records [t |-> <type>, v |-> <payload>].       *)
(***************************************************************************)
EXTENDS Integers, Sequences, FiniteSets, TLC

(***************************************************************************)
(* Python str primitives                                                   *)
(***************************************************************************)

\* str.strip() / regex \s / json whitespace: the whitespace characters used.
IsSpace(c) == c \in {" ", "\n", "\t", "\r"}

Digits == <<"0", "1", "2", "3", "4", "5", "6", "7", "8", "9">>

IsDigit(c) == \E d \in 1..10 : Digits[d] = c

DigitVal(c) == (CHOOSE d \in 1..10 : Digits[d] = c) - 1

\* s[i:j] with 1-based inclusive bounds; empty when i > j.
Slice(s, i, j) == IF i > j THEN <<>> ELSE SubSeq(s, i, j)

\* sub occurs in s starting at (1-based) position i.
MatchAt(s, sub, i) ==
    /\ i >= 1
    /\ i + Len(sub) - 1 <= Len(s)
    /\ \A k \in 1..Len(sub) : s[i + k - 1] = sub[k]

\* the least element of a set of positions, 0 when it is empty
MinOrZero(S) == IF S = {} THEN 0 ELSE CHOOSE i \in S : \A j \in S : i <= j

\* the greatest element of a set of positions, 0 when it is empty
MaxOrZero(S) == IF S = {} THEN 0 ELSE CHOOSE i \in S : \A j \in S : i >= j

\* s.find(sub, from): least position >= from where sub occurs, 0 when none
\* (Python's -1).
FindFrom(s, sub, from) ==
    MinOrZero({i \in from..(Len(s) - Len(sub) + 1) : MatchAt(s, sub, i)})

Find(s, sub) == FindFrom(s, sub, 1)

\* s.rfind(sub): greatest position where sub occurs, 0 when none.
RFind(s, sub) == MaxOrZero({i \in 1..(Len(s) - Len(sub) + 1) : MatchAt(s, sub, i)})

\* sub in s
Contains(s, sub) == Find(s, sub) # 0

\* s.startswith(sub)
StartsWith(s, sub) == MatchAt(s, sub, 1)

\* s.count(c) for a one-character c
Count(s, c) == Cardinality({i \in 1..Len(s) : s[i] = c})

\* s[first:last + 1] for 1-based first, the empty string when first is 0
Between(s, first, last) == IF first = 0 THEN <<>> ELSE SubSeq(s, first, last)

\* s.strip()
Strip(s) ==
    Between(s, MinOrZero({i \in 1..Len(s) : ~IsSpace(s[i])}),
               MaxOrZero({i \in 1..Len(s) : ~IsSpace(s[i])}))

\* the ASCII letters: the upper case and the lower case of each
Letters ==
    <<<<"A", "a">>, <<"B", "b">>, <<"C", "c">>, <<"D", "d">>, <<"E", "e">>,
      <<"F", "f">>, <<"G", "g">>, <<"H", "h">>, <<"I", "i">>, <<"J", "j">>,
      <<"K", "k">>, <<"L", "l">>, <<"M", "m">>, <<"N", "n">>, <<"O", "o">>,
      <<"P", "p">>, <<"Q", "q">>, <<"R", "r">>, <<"S", "s">>, <<"T", "t">>,
      <<"U", "u">>, <<"V", "v">>, <<"W", "w">>, <<"X", "x">>, <<"Y", "y">>,
      <<"Z", "z">>>>

\* str.lower() on one character (ASCII letters)
LowerChar(c) ==
    IF \E i \in 1..Len(Letters) : Letters[i][1] = c
    THEN Letters[CHOOSE i \in 1..Len(Letters) : Letters[i][1] = c][2]
    ELSE c

\* str.upper() on one character (ASCII letters)
UpperChar(c) ==
    IF \E i \in 1..Len(Letters) : Letters[i][2] = c
    THEN Letters[CHOOSE i \in 1..Len(Letters) : Letters[i][2] = c][1]
    ELSE c

Lower(s) == [i \in 1..Len(s) |-> LowerChar(s[i])]

Upper(s) == [i \in 1..Len(s) |-> UpperChar(s[i])]

(***************************************************************************)
(* Python values: [t |-> type tag, v |-> payload].  A dict keeps its keys  *)
(* in insertion order as a sequence of [k |-> key, v |-> value].           *)
(***************************************************************************)

PyNone == [t |-> "none", v |-> 0]

PyBool(b) == [t |-> "bool", v |-> b]

PyInt(n) == [t |-> "int", v |-> n]

PyStr(s) == [t |-> "str", v |-> s]

PyList(items) == [t |-> "list", v |-> items]

PyDict(pairs) == [t |-> "dict", v |-> pairs]

\* isinstance(x, list)
IsList(x) == x.t = "list"

\* key in d
DictHas(d, key) == \E i \in 1..Len(d.v) : d.v[i].k = key

\* d.get(key, default)
DictGet(d, key, default) ==
    IF DictHas(d, key)
    THEN d.v[CHOOSE i \in 1..Len(d.v) : d.v[i].k = key].v
    ELSE default

\* d[key] = value on the pair list: a repeated key keeps its place and takes
\* the later value.
DictSet(pairs, key, value) ==
    IF \E i \in 1..Len(pairs) : pairs[i].k = key
    THEN [i \in 1..Len(pairs) |->
             IF pairs[i].k = key THEN [k |-> key, v |-> value] ELSE pairs[i]]
    ELSE Append(pairs, [k |-> key, v |-> value])

(***************************************************************************)
(* json.loads (CPython json.decoder / json.scanner).  Positions are        *)
(* 1-based; an error carries the 0-based offset Python reports.  Modelled: *)
(* objects, arrays, strings with the simple backslash escapes, integers,   *)
(* true/false/null.  Not modelled: \uXXXX escapes, fractions, exponents,   *)
(* NaN/Infinity; no reply text of the model uses them.                     *)
(***************************************************************************)

Ok(val, end) == [ok |-> TRUE, val |-> val, end |-> end]

Err(kind, pos) == [ok |-> FALSE, kind |-> kind, pos |-> pos]

\* s[i:i+1], the empty string past the end
CharAt(s, i) == IF i >= 1 /\ i <= Len(s) THEN s[i] ELSE ""

\* the position p, or the one after the end of s when p is 0
OrEnd(s, p) == IF p = 0 THEN Len(s) + 1 ELSE p

\* json.decoder.WHITESPACE.match(s, i).end()
SkipWs(s, i) == OrEnd(s, MinOrZero({j \in i..Len(s) : s[j] \notin {" ", "\t", "\n", "\r"}}))

IsEscape(c) == c \in {"\"", "\\", "/", "b", "f", "n", "r", "t"}

Unescape(c) ==
    CASE c = "n" -> "\n"
      [] c = "t" -> "\t"
      [] c = "r" -> "\r"
      [] OTHER   -> c

RECURSIVE ScanString(_, _, _, _)
\* json.decoder.scanstring: i is the position after the opening quote at begin.
ScanString(s, i, begin, acc) ==
    IF i > Len(s) THEN Err("Unterminated string starting at", begin - 1)
    ELSE IF s[i] = "\"" THEN Ok(PyStr(acc), i + 1)
    ELSE IF s[i] = "\\" THEN
        IF i + 1 > Len(s) THEN Err("Unterminated string starting at", begin - 1)
        ELSE IF IsEscape(s[i + 1])
        THEN ScanString(s, i + 2, begin, Append(acc, Unescape(s[i + 1])))
        ELSE Err("Invalid \\escape", i - 1)
    ELSE IF s[i] \in {"\n", "\t", "\r"} THEN Err("Invalid control character at", i - 1)
    ELSE ScanString(s, i + 1, begin, Append(acc, s[i]))

RECURSIVE ScanDigits(_, _, _)
\* the [1-9]\d* part of json.scanner.NUMBER_RE
ScanDigits(s, i, n) ==
    IF i <= Len(s) /\ IsDigit(s[i])
    THEN ScanDigits(s, i + 1, 10 * n + DigitVal(s[i]))
    ELSE [n |-> n, end |-> i]

\* the integer scanned from start, negated when neg
SignedNumber(neg, d) == Ok(PyInt(IF neg THEN 0 - d.n ELSE d.n), d.end)

\* json.scanner.NUMBER_RE.match(s, i) once the sign is read: start is the
\* position of the first digit
ScanUnsigned(s, i, neg, start) ==
    IF ~(start <= Len(s) /\ IsDigit(s[start])) THEN Err("Expecting value", i - 1)
    ELSE IF s[start] = "0" THEN Ok(PyInt(0), start + 1)
    ELSE SignedNumber(neg, ScanDigits(s, start, 0))

\* json.scanner.NUMBER_RE.match(s, i), integer part
ScanNumber(s, i) == ScanUnsigned(s, i, s[i] = "-", IF s[i] = "-" THEN i + 1 ELSE i)

RECURSIVE ParseValue(_, _)
RECURSIVE ParseMembers(_, _, _)
RECURSIVE ParseElements(_, _, _)

RECURSIVE MembersAfterValue(_, _, _)
RECURSIVE MembersAfterColon(_, _, _, _)
RECURSIVE MembersAfterKey(_, _, _)
RECURSIVE MembersNext(_, _, _)

\* JSONObject after a comma: e4 is the position of the next key's quote
MembersNext(s, e4, pairs) ==
    IF CharAt(s, e4) # "\""
    THEN Err("Expecting property name enclosed in double quotes", e4 - 1)
    ELSE ParseMembers(s, e4 + 1, pairs)

\* JSONObject after a value: e3 is the position of the delimiter
MembersAfterValue(s, e3, value) ==
    IF CharAt(s, e3) = "}" THEN Ok(PyDict(value), e3 + 1)
    ELSE IF CharAt(s, e3) # "," THEN Err("Expecting ',' delimiter", e3 - 1)
    ELSE MembersNext(s, SkipWs(s, e3 + 1), value)

\* JSONObject after the colon: value is the result of the value scan
MembersAfterColon(s, pairs, key, value) ==
    IF ~value.ok THEN value
    ELSE MembersAfterValue(s, SkipWs(s, value.end),
                           DictSet(pairs, key.val.v, value.val))

\* JSONObject after a key: e1 is the position where the colon must be
MembersAfterKey(s, pairs, key) ==
    IF ~key.ok THEN key
    ELSE IF CharAt(s, SkipWs(s, key.end)) # ":"
    THEN Err("Expecting ':' delimiter", SkipWs(s, key.end) - 1)
    ELSE MembersAfterColon(s, pairs, key,
                           ParseValue(s, SkipWs(s, SkipWs(s, key.end) + 1)))

\* json.decoder.JSONObject, the loop over "key": value pairs; end is the
\* position after the opening quote of the next key.
ParseMembers(s, end, pairs) ==
    MembersAfterKey(s, pairs, ScanString(s, end, end - 1, <<>>))

\* JSONObject at e1, the first position after the brace that is not blank
ObjectAt(s, e1) ==
    IF CharAt(s, e1) = "}" THEN Ok(PyDict(<<>>), e1 + 1)
    ELSE IF CharAt(s, e1) # "\""
    THEN Err("Expecting property name enclosed in double quotes", e1 - 1)
    ELSE ParseMembers(s, e1 + 1, <<>>)

\* json.decoder.JSONObject; end is the position after the brace.
ParseObject(s, end) == ObjectAt(s, SkipWs(s, end))

RECURSIVE ElementsAfterValue(_, _, _)

\* JSONArray after a value: e1 is the position of the delimiter
ElementsAfterValue(s, e1, items) ==
    IF CharAt(s, e1) = "]" THEN Ok(PyList(items), e1 + 1)
    ELSE IF CharAt(s, e1) # "," THEN Err("Expecting ',' delimiter", e1 - 1)
    ELSE ParseElements(s, SkipWs(s, e1 + 1), items)

\* JSONArray once an element is scanned
ElementsAfterScan(s, items, value) ==
    IF ~value.ok THEN value
    ELSE ElementsAfterValue(s, SkipWs(s, value.end), Append(items, value.val))

\* json.decoder.JSONArray, the loop over the elements.
ParseElements(s, end, items) == ElementsAfterScan(s, items, ParseValue(s, end))

\* JSONArray at e1, the first position after the bracket that is not blank
ArrayAt(s, e1) ==
    IF CharAt(s, e1) = "]" THEN Ok(PyList(<<>>), e1 + 1)
    ELSE ParseElements(s, e1, <<>>)

\* json.decoder.JSONArray; end is the position after the bracket.
ParseArray(s, end) == ArrayAt(s, SkipWs(s, end))

\* json.scanner.py_make_scanner._scan_once
ParseValue(s, i) ==
    IF i > Len(s) THEN Err("Expecting value", i - 1)
    ELSE IF s[i] = "\"" THEN ScanString(s, i + 1, i, <<>>)
    ELSE IF s[i] = "{" THEN ParseObject(s, i + 1)
    ELSE IF s[i] = "[" THEN ParseArray(s, i + 1)
    ELSE IF MatchAt(s, <<"n", "u", "l", "l">>, i) THEN Ok(PyNone, i + 4)
    ELSE IF MatchAt(s, <<"t", "r", "u", "e">>, i) THEN Ok(PyBool(TRUE), i + 4)
    ELSE IF MatchAt(s, <<"f", "a", "l", "s", "e">>, i) THEN Ok(PyBool(FALSE), i + 5)
    ELSE IF s[i] = "-" \/ IsDigit(s[i]) THEN ScanNumber(s, i)
    ELSE Err("Expecting value", i - 1)

\* JSONDecoder.decode after raw_decode: the value must end the text
DecodeEnd(s, r, e) == IF e # Len(s) + 1 THEN Err("Extra data", e - 1) ELSE r

\* JSONDecoder.decode on the result r of raw_decode
Decoded(s, r) == IF ~r.ok THEN r ELSE DecodeEnd(s, r, SkipWs(s, r.end))

\* json.loads(s): JSONDecoder.decode
JsonLoads(s) == Decoded(s, ParseValue(s, SkipWs(s, 1)))

(***************************************************************************)
(* Response normalisation: chat.py lines 686-717 and 741-798               *)
(***************************************************************************)

\* The backquote character.  A string of the module cannot hold a backquote,
\* so the character is written as this code, distinct from every
\* one-character string.
BQ == "bq"

\* the markdown fence delimiter of code_block_pattern
Fence ==
    <<BQ, BQ, BQ>>

\* the optional language tag of code_block_pattern
JsonWord ==
    <<"j", "s", "o", "n">>

\* the message key of the response contract
KeyMessage ==
    <<"m", "e", "s", "s", "a", "g", "e">>

\* the operations key of the response contract
KeyOperations ==
    <<"o", "p", "e", "r", "a", "t", "i", "o", "n", "s">>

\* default message of response_data.get("message", ...)
MsgProcessed ==
    <<"I", "'", "v", "e", " ", "p", "r", "o", "c", "e", "s", "s", "e", "d",
      " ", "y", "o", "u", "r", " ", "r", "e", "q", "u", "e", "s", "t", ".">>

\* message of the legacy-array fallback
MsgUpdated ==
    <<"I", "'", "v", "e", " ", "u", "p", "d", "a", "t", "e", "d", " ", "y",
      "o", "u", "r", " ", "d", "i", "a", "g", "r", "a", "m", ".">>

\* message when the fallback decode yields a non-list
MsgCouldNotParse ==
    <<"I", " ", "r", "e", "c", "e", "i", "v", "e", "d", " ", "y", "o", "u",
      "r", " ", "m", "e", "s", "s", "a", "g", "e", ",", " ", "b", "u", "t",
      " ", "c", "o", "u", "l", "d", "n", "'", "t", " ", "p", "a", "r", "s",
      "e", " ", "t", "h", "e", " ", "r", "e", "s", "p", "o", "n", "s", "e",
      " ", "f", "o", "r", "m", "a", "t", ".">>

\* the apology f-string up to the error preview
MsgApologyHead ==
    <<"I", " ", "r", "e", "c", "e", "i", "v", "e", "d", " ", "y", "o", "u",
      "r", " ", "m", "e", "s", "s", "a", "g", "e", ",", " ", "b", "u", "t",
      " ", "e", "n", "c", "o", "u", "n", "t", "e", "r", "e", "d", " ", "a",
      "n", " ", "e", "r", "r", "o", "r", " ", "p", "r", "o", "c", "e", "s",
      "s", "i", "n", "g", " ", "i", "t", ".", " ", "T", "h", "e", " ", "A",
      "I", " ", "r", "e", "s", "p", "o", "n", "s", "e", " ", "c", "o", "u",
      "l", "d", "n", "'", "t", " ", "b", "e", " ", "p", "a", "r", "s", "e",
      "d", " ", "a", "s", " ", "J", "S", "O", "N", ".", " ", "P", "l", "e",
      "a", "s", "e", " ", "t", "r", "y", " ", "r", "e", "p", "h", "r", "a",
      "s", "i", "n", "g", " ", "y", "o", "u", "r", " ", "r", "e", "q", "u",
      "e", "s", "t", ".", " ", "(", "E", "r", "r", "o", "r", ":", " ">>

\* the apology f-string after the error preview
MsgApologyTail ==
    <<")">>

\* the msg argument of JSONDecodeError, as characters
ErrMsgChars(kind) ==
    CASE kind = "Expecting value" ->
        <<"E", "x", "p", "e", "c", "t", "i", "n", "g", " ", "v", "a", "l",
          "u", "e">>
      [] kind = "Extra data" ->
        <<"E", "x", "t", "r", "a", " ", "d", "a", "t", "a">>
      [] kind = "Expecting ',' delimiter" ->
        <<"E", "x", "p", "e", "c", "t", "i", "n", "g", " ", "'", ",", "'",
          " ", "d", "e", "l", "i", "m", "i", "t", "e", "r">>
      [] kind = "Expecting ':' delimiter" ->
        <<"E", "x", "p", "e", "c", "t", "i", "n", "g", " ", "'", ":", "'",
          " ", "d", "e", "l", "i", "m", "i", "t", "e", "r">>
      [] kind = "Expecting property name enclosed in double quotes" ->
        <<"E", "x", "p", "e", "c", "t", "i", "n", "g", " ", "p", "r", "o",
          "p", "e", "r", "t", "y", " ", "n", "a", "m", "e", " ", "e", "n",
          "c", "l", "o", "s", "e", "d", " ", "i", "n", " ", "d", "o", "u",
          "b", "l", "e", " ", "q", "u", "o", "t", "e", "s">>
      [] kind = "Unterminated string starting at" ->
        <<"U", "n", "t", "e", "r", "m", "i", "n", "a", "t", "e", "d", " ",
          "s", "t", "r", "i", "n", "g", " ", "s", "t", "a", "r", "t", "i",
          "n", "g", " ", "a", "t">>
      [] kind = "Invalid control character at" ->
        <<"I", "n", "v", "a", "l", "i", "d", " ", "c", "o", "n", "t", "r",
          "o", "l", " ", "c", "h", "a", "r", "a", "c", "t", "e", "r", " ",
          "a", "t">>
      [] OTHER ->
        <<"I", "n", "v", "a", "l", "i", "d", " ", "\\", "e", "s", "c", "a",
          "p", "e">>

RECURSIVE IntChars(_)
\* str(n) for n >= 0
IntChars(n) ==
    IF n < 10 THEN <<Digits[n + 1]>>
    ELSE IntChars(n \div 10) \o <<Digits[(n % 10) + 1]>>

\* JSONDecodeError.lineno: doc.count('\n', 0, pos) + 1
ErrLineNo(doc, pos) == Cardinality({i \in 1..pos : i <= Len(doc) /\ doc[i] = "\n"}) + 1

\* JSONDecodeError.colno: pos - doc.rindex('\n', 0, pos), or pos + 1 on line 1
ErrColNo(doc, pos) ==
    pos + 1 - MaxOrZero({i \in 1..pos : i <= Len(doc) /\ doc[i] = "\n"})

\* str(e) for the JSONDecodeError e raised on doc
ErrStr(e, doc) ==
    ErrMsgChars(e.kind) \o <<":", " ", "l", "i", "n", "e", " ">> \o IntChars(ErrLineNo(doc, e.pos))
        \o <<" ", "c", "o", "l", "u", "m", "n", " ">> \o IntChars(ErrColNo(doc, e.pos))
        \o <<" ", "(", "c", "h", "a", "r", " ">> \o IntChars(e.pos) \o <<")">>

\* The length to which the decode error is cut in the apology (chat.py:795).
ErrorPreviewLen == 100

\* error_preview = str(e)[:100] if len(str(e)) > 100 else str(e)
ErrorPreview(text) ==
    IF Len(text) > ErrorPreviewLen THEN SubSeq(text, 1, ErrorPreviewLen) ELSE text

\* the match of code_block_pattern whose group starts at start
CodeBlockGroup(text, start, close) ==
    IF close = 0 THEN [found |-> FALSE, group |-> <<>>]
    ELSE [found |-> TRUE, group |-> Slice(text, start, close - 1)]

\* the match of code_block_pattern once the tag and the blanks are passed
CodeBlockFrom(text, start) == CodeBlockGroup(text, start, FindFrom(text, Fence, start))

\* the match of code_block_pattern for the opening fence at open
CodeBlockAt(text, open) ==
    IF open = 0 THEN [found |-> FALSE, group |-> <<>>]
    ELSE CodeBlockFrom(text,
             OrEnd(text, MinOrZero({j \in (IF MatchAt(text, JsonWord, open + 3)
                                          THEN open + 7 ELSE open + 3)..Len(text) :
                                      ~IsSpace(text[j])})))

\* code_block_pattern = r'```(?:json)?\s*\n?(.*?)```' under re.search with
\* re.DOTALL: the group of the leftmost match, or no match.  The optional
\* tag and \s* are greedy and contain no backquote, so a closing fence exists
\* for the greedy start exactly when it exists for any shorter start.
CodeBlockSearch(text) == CodeBlockAt(text, Find(text, Fence))

\* chat.py:703-706: remove the trailing fence, then strip
CutLastFence(body, last_backticks) ==
    Strip(IF last_backticks # 0 THEN Slice(body, 1, last_backticks - 1) ELSE body)

\* chat.py:697-701: drop the first line, or the three backquotes
DropFirstLine(text, first_newline) ==
    IF first_newline # 0
    THEN Slice(text, first_newline + 1, Len(text))
    ELSE Slice(text, 4, Len(text))

\* chat.py:695-706, the branch for a reply that starts with a fence no regex
\* match closed.
SimpleFenceRemoval(text) ==
    CutLastFence(DropFirstLine(text, Find(text, <<"\n">>)),
                 RFind(DropFirstLine(text, Find(text, <<"\n">>)), Fence))

\* chat.py:693-706 on the result m of the regex search
StripWith(reply_text, m) ==
    IF m.found THEN Strip(m.group)
    ELSE IF StartsWith(reply_text, Fence) THEN SimpleFenceRemoval(reply_text)
    ELSE reply_text

\* chat.py:691-706
StripCodeBlock(reply_text) == StripWith(reply_text, CodeBlockSearch(reply_text))

\* a faulty variant of CandidateBetween: the brace counts are not compared
CandidateBetweenNoBalance(reply_text, first_brace, last_brace) ==
    IF first_brace # 0 /\ last_brace # 0 /\ last_brace > first_brace
    THEN SubSeq(reply_text, first_brace, last_brace)
    ELSE reply_text

\* chat.py:712-717 for the positions of the first and the last brace
CandidateBetween(reply_text, first_brace, last_brace) ==
    IF first_brace # 0 /\ last_brace # 0 /\ last_brace > first_brace
    THEN IF Count(SubSeq(reply_text, first_brace, last_brace), "{")
              = Count(SubSeq(reply_text, first_brace, last_brace), "}")
         THEN SubSeq(reply_text, first_brace, last_brace)
         ELSE reply_text
    ELSE reply_text

\* chat.py:708-717, the balance heuristic
ExtractCandidate(reply_text) ==
    CandidateBetween(reply_text, Find(reply_text, <<"{">>), RFind(reply_text, <<"}">>))

\* chat.py:686-717: the text handed to json.loads for the raw response text
CleanReply(raw) == ExtractCandidate(StripCodeBlock(Strip(raw)))

RECURSIVE BraceAt(_, _, _)
RECURSIVE ScanBraces(_, _, _)

\* json_pattern at the next brace b (0 when the text has no further brace)
BraceAt(s, b, depth) ==
    IF b = 0 THEN 0
    ELSE IF s[b] = "}"
         THEN IF depth = 0 THEN b ELSE ScanBraces(s, b + 1, 0)
         ELSE IF depth = 0 THEN ScanBraces(s, b + 1, 1) ELSE 0

\* json_pattern = r'\{[^{}]*(?:\{[^{}]*\}[^{}]*)*\}' from just after a brace:
\* the position of the closing brace of the match, 0 when the match fails
\* (end of text, or a second level of nesting).
ScanBraces(s, j, depth) ==
    BraceAt(s, MinOrZero({b \in j..Len(s) : s[b] \in {"{", "}"}}), depth)

RECURSIVE FindAllJson(_, _, _)
RECURSIVE FindAllAfter(_, _, _, _)

\* re.findall at position i, where a match attempt ended at end (0: failed)
FindAllAfter(s, i, end, acc) ==
    IF end # 0
    THEN FindAllJson(s, end + 1, Append(acc, SubSeq(s, i, end)))
    ELSE FindAllJson(s, i + 1, acc)

\* re.findall(json_pattern, s, re.DOTALL) from position i: the
\* non-overlapping matches, left to right.
FindAllJson(s, i, acc) ==
    IF i > Len(s) THEN acc
    ELSE FindAllAfter(s, i, IF s[i] = "{" THEN ScanBraces(s, i + 1, 0) ELSE 0, acc)

RECURSIVE InsertByLen(_, _)
\* insert x after every element at least as long (keeps the sort stable)
InsertByLen(sorted, x) ==
    IF sorted = <<>> THEN <<x>>
    ELSE IF Len(Head(sorted)) >= Len(x)
         THEN <<Head(sorted)>> \o InsertByLen(Tail(sorted), x)
         ELSE <<x>> \o sorted

RECURSIVE SortByLenDesc(_, _)
\* json_matches.sort(key=len, reverse=True)
SortByLenDesc(xs, acc) ==
    IF xs = <<>> THEN acc ELSE SortByLenDesc(Tail(xs), InsertByLen(acc, Head(xs)))

\* a faulty variant of CoerceOperations: the isinstance check is dropped
CoerceOperationsNoCheck(operations) == operations

\* chat.py:750-751 and 775-776: if not isinstance(operations, list): []
CoerceOperations(operations) ==
    IF IsList(operations) THEN operations ELSE PyList(<<>>)

\* chat.py:746-751 / 773-776 on a decoded dict
ReadResponse(response_data, branch) ==
    [raised     |-> FALSE,
     branch     |-> branch,
     message    |-> DictGet(response_data, KeyMessage, PyStr(MsgProcessed)),
     operations |-> CoerceOperations(
                        DictGet(response_data, KeyOperations, PyList(<<>>)))]

\* chat.py:771-772 on the decode d of one candidate: it is accepted
Accepts(d) ==
    /\ d.ok
    /\ d.val.t = "dict"
    /\ (DictHas(d.val, KeyMessage) \/ DictHas(d.val, KeyOperations))

\* chat.py:769-780: the first candidate, in order, that decodes to an object
\* holding message or operations; 0 when none does.  A candidate starts
\* with a brace, so a successful decode is a dict.
AcceptedCandidate(cands) ==
    MinOrZero({i \in 1..Len(cands) : Accepts(JsonLoads(cands[i]))})

\* a faulty variant of FallbackOn: a failed second decode is raised again
FallbackOnRaising(reply_text, e, parsed) ==
    IF parsed.ok
    THEN IF IsList(parsed.val)
         THEN [raised |-> FALSE, branch |-> "legacy_array",
               message |-> PyStr(MsgUpdated), operations |-> parsed.val]
         ELSE [raised |-> FALSE, branch |-> "legacy_other",
               message |-> PyStr(MsgCouldNotParse), operations |-> PyList(<<>>)]
    ELSE [raised |-> TRUE, branch |-> "apology",
          message |-> PyNone, operations |-> PyNone]

\* chat.py:786-798 on the result parsed of the second decode
FallbackOn(reply_text, e, parsed) ==
    IF parsed.ok
    THEN IF IsList(parsed.val)
         THEN [raised |-> FALSE, branch |-> "legacy_array",
               message |-> PyStr(MsgUpdated), operations |-> parsed.val]
         ELSE [raised |-> FALSE, branch |-> "legacy_other",
               message |-> PyStr(MsgCouldNotParse), operations |-> PyList(<<>>)]
    ELSE [raised |-> FALSE, branch |-> "apology",
          message |-> PyStr(MsgApologyHead
                            \o ErrorPreview(ErrStr(e, reply_text))
                            \o MsgApologyTail),
          operations |-> PyList(<<>>)]

\* chat.py:782-798: the fallback once no candidate was accepted; e is the
\* JSONDecodeError of the first decode.
LegacyFallback(reply_text, e) == FallbackOn(reply_text, e, JsonLoads(reply_text))

\* chat.py:782-783 once a candidate was read: a message that is None, as a
\* null message of the candidate leaves it, starts the fallback all the same
NormalizeRead(reply_text, e, read) ==
    IF read.message = PyNone THEN LegacyFallback(reply_text, e) ELSE read

\* chat.py:769-798 for the index pick of the accepted candidate (0: none)
NormalizePicked(reply_text, e, cands, pick) ==
    IF pick # 0
    THEN NormalizeRead(reply_text, e,
                       ReadResponse(JsonLoads(cands[pick]).val, "regex"))
    ELSE LegacyFallback(reply_text, e)

\* chat.py:763-798 for the sorted regex matches cands
NormalizeCandidates(reply_text, e, cands) ==
    NormalizePicked(reply_text, e, cands, AcceptedCandidate(cands))

\* chat.py:741-798 for the result d of the first decode.  A decoded value
\* that is not a dict has no .get: the AttributeError is not a
\* JSONDecodeError and leaves the block.
NormalizeDecoded(reply_text, d) ==
    IF d.ok
    THEN IF d.val.t = "dict"
         THEN ReadResponse(d.val, "strict")
         ELSE [raised |-> TRUE, branch |-> "strict", message |-> PyNone,
               operations |-> PyList(<<>>)]
    ELSE NormalizeCandidates(reply_text, d,
                             SortByLenDesc(FindAllJson(reply_text, 1, <<>>), <<>>))

\* chat.py:741-798 on the cleaned reply text
Normalize(reply_text) == NormalizeDecoded(reply_text, JsonLoads(reply_text))

(***************************************************************************)
(* uuid.UUID(hex) as called at chat.py:435                                 *)
(***************************************************************************)

\* prefixes uuid.UUID removes
UrnPrefix ==
    <<"u", "r", "n", ":">>

UuidPrefix ==
    <<"u", "u", "i", "d", ":">>

RECURSIVE RemoveAll(_, _)
RECURSIVE RemoveAt(_, _, _)

\* s.replace(sub, '') given the first occurrence i of sub (0: none)
RemoveAt(s, sub, i) ==
    IF i = 0 THEN s
    ELSE Slice(s, 1, i - 1) \o RemoveAll(Slice(s, i + Len(sub), Len(s)), sub)

\* s.replace(sub, '')
RemoveAll(s, sub) == RemoveAt(s, sub, Find(s, sub))

\* s.strip('{}')
StripBraces(s) ==
    Between(s, MinOrZero({i \in 1..Len(s) : s[i] \notin {"{", "}"}}),
               MaxOrZero({i \in 1..Len(s) : s[i] \notin {"{", "}"}}))

IsHex(c) ==
    \/ IsDigit(c)
    \/ c \in {"a", "b", "c", "d", "e", "f", "A", "B", "C", "D", "E", "F"}

\* The number of hexadecimal digits of a UUID (uuid.py: len(hex) != 32).
UuidHexLen == 32

\* uuid.py: len(hex) != 32, and int(hex, 16) on hexadecimal digits
IsHex32(h) ==
    /\ Len(h) = UuidHexLen
    /\ \A i \in 1..Len(h) : IsHex(h[i])

\* uuid.UUID(hex) does not raise ValueError.  (int(hex, 16) also accepts a
\* sign, underscores and surrounding blanks; no identifier of the model has
\* them.)
UuidParses(hex) ==
    IsHex32(RemoveAll(StripBraces(RemoveAll(RemoveAll(hex, UrnPrefix), UuidPrefix)),
                      <<"-">>))

(***************************************************************************)
(* Configuration: env.py and supabase_client.py                            *)
(***************************************************************************)

\* env.py:17, SUPABASE_URL.startswith
HttpPrefix ==
    <<"h", "t", "t", "p">>

\* values the environment may hold for SUPABASE_URL
UrlBlank ==
    <<" ", " ">>

UrlNoScheme ==
    <<"l", "o", "c", "a", "l", "h", "o", "s", "t", ":", "5", "4", "3", "2",
      "1">>

UrlHttps ==
    <<"h", "t", "t", "p", "s", ":", "/", "/", "d", "b", ".", "s", "u", "p",
      "a", "b", "a", "s", "e", ".", "c", "o">>

\* a key that is set
SecretSet ==
    <<"s", "e", "c", "r", "e", "t">>

\* What the process environment may hold for the three settings.
RawEnvs ==
    [SUPABASE_URL : {<<>>, UrlBlank, UrlNoScheme, UrlHttps},
     SUPABASE_SERVICE_ROLE_KEY : {<<>>, SecretSet},
     GOOGLE_GEMINI_API_KEY : {<<>>, SecretSet}]

\* env.py:6-10, class Env: os.getenv(name, "").strip()
LoadEnv(raw) ==
    [SUPABASE_URL              |-> Strip(raw.SUPABASE_URL),
     SUPABASE_SERVICE_ROLE_KEY |-> Strip(raw.SUPABASE_SERVICE_ROLE_KEY),
     GEMINI_API_KEY            |-> Strip(raw.GOOGLE_GEMINI_API_KEY)]

\* a faulty variant of EnvValidate: the provider key is not required
EnvValidateNoGemini(e) ==
    LET missing ==
            (IF e.SUPABASE_URL = <<>> THEN {"SUPABASE_URL"} ELSE {})
            \cup (IF e.SUPABASE_SERVICE_ROLE_KEY = <<>>
                  THEN {"SUPABASE_SERVICE_ROLE_KEY"} ELSE {})
    IN  IF e.SUPABASE_URL # <<>> /\ ~StartsWith(e.SUPABASE_URL, HttpPrefix)
        THEN FALSE
        ELSE missing = {}

\* env.py:12-24, Env.validate: TRUE when it returns, FALSE when it raises
\* RuntimeError.
EnvValidate(e) ==
    LET missing ==
            (IF e.SUPABASE_URL = <<>> THEN {"SUPABASE_URL"} ELSE {})
            \cup (IF e.SUPABASE_SERVICE_ROLE_KEY = <<>>
                  THEN {"SUPABASE_SERVICE_ROLE_KEY"} ELSE {})
            \cup (IF e.GEMINI_API_KEY = <<>> THEN {"GOOGLE_GEMINI_API_KEY"} ELSE {})
    IN  IF e.SUPABASE_URL # <<>> /\ ~StartsWith(e.SUPABASE_URL, HttpPrefix)
        THEN FALSE
        ELSE missing = {}

\* supabase_client.py:5-16: the module-level client; create_ok is whether
\* create_client returned rather than raised.
InitSupabase(e, create_ok) ==
    IF EnvValidate(e) /\ create_ok THEN "client" ELSE "none"

(***************************************************************************)
(* The external store (projects, chat_messages) and what a request carries *)
(***************************************************************************)

\* project identifiers a request may carry
IdNotUuid ==
    <<"n", "o", "t", "-", "a", "-", "u", "u", "i", "d">>

IdA ==
    <<"1", "1", "1", "1", "1", "1", "1", "1", "-", "1", "1", "1", "1", "-",
      "1", "1", "1", "1", "-", "1", "1", "1", "1", "-", "1", "1", "1", "1",
      "1", "1", "1", "1", "1", "1", "1", "1">>

IdB ==
    <<"2", "2", "2", "2", "2", "2", "2", "2", "-", "2", "2", "2", "2", "-",
      "2", "2", "2", "2", "-", "2", "2", "2", "2", "-", "2", "2", "2", "2",
      "2", "2", "2", "2", "2", "2", "2", "2">>

IdMissing ==
    <<"3", "3", "3", "3", "3", "3", "3", "3", "-", "3", "3", "3", "3", "-",
      "3", "3", "3", "3", "-", "3", "3", "3", "3", "-", "3", "3", "3", "3",
      "3", "3", "3", "3", "3", "3", "3", "3">>

IdUrn ==
    <<"u", "r", "n", ":", "u", "u", "i", "d", ":", "1", "1", "1", "1", "1",
      "1", "1", "1", "-", "1", "1", "1", "1", "-", "1", "1", "1", "1", "-",
      "1", "1", "1", "1", "-", "1", "1", "1", "1", "1", "1", "1", "1", "1",
      "1", "1", "1">>

\* user messages a request may carry
MsgHi ==
    <<"h", "i">>

MsgAddDb ==
    <<"a", "d", "d", " ", "a", " ", "d", "a", "t", "a", "b", "a", "s", "e">>

\* chat_messages.role values
RoleUser ==
    <<"u", "s", "e", "r">>

RoleAssistant ==
    <<"a", "s", "s", "i", "s", "t", "a", "n", "t">>

\* content of the exchanges stored before the request
StoredQuestion ==
    <<"a", "d", "d", " ", "a", " ", "c", "a", "c", "h", "e">>

StoredAnswer ==
    <<"I", "'", "v", "e", " ", "a", "d", "d", "e", "d", " ", "a", " ", "c",
      "a", "c", "h", "e", ".">>

\* chat.py:519, the placeholder for an empty history
NoPreviousMessages ==
    <<"N", "o", " ", "p", "r", "e", "v", "i", "o", "u", "s", " ", "m", "e",
      "s", "s", "a", "g", "e", "s", ".">>

ColonSpace ==
    <<":", " ">>

\* chat.py:469,487
UuidSyntaxText ==
    <<"i", "n", "v", "a", "l", "i", "d", " ", "i", "n", "p", "u", "t", " ",
      "s", "y", "n", "t", "a", "x", " ", "f", "o", "r", " ", "t", "y", "p",
      "e", " ", "u", "u", "i", "d">>

\* chat.py:475
NotFoundText ==
    <<"n", "o", "t", " ", "f", "o", "u", "n", "d">>

\* chat.py:475
NoRowsText ==
    <<"n", "o", " ", "r", "o", "w", "s">>

\* chat.py:475
Pgrst116 ==
    <<"P", "G", "R", "S", "T", "1", "1", "6">>

\* chat.py:469
Pg22P02 ==
    <<"2", "2", "P", "0", "2">>

\* messages and codes the store raises
TextNoRowsReturned ==
    <<"J", "S", "O", "N", " ", "o", "b", "j", "e", "c", "t", " ", "r", "e",
      "q", "u", "e", "s", "t", "e", "d", ",", " ", "m", "u", "l", "t", "i",
      "p", "l", "e", " ", "(", "o", "r", " ", "n", "o", ")", " ", "r", "o",
      "w", "s", " ", "r", "e", "t", "u", "r", "n", "e", "d">>

TextBadUuid ==
    <<"i", "n", "v", "a", "l", "i", "d", " ", "i", "n", "p", "u", "t", " ",
      "s", "y", "n", "t", "a", "x", " ", "f", "o", "r", " ", "t", "y", "p",
      "e", " ", "u", "u", "i", "d", ":", " ", "\"", "u", "r", "n", ":", "u",
      "u", "i", "d", ":", "1", "\"">>

TextDenied ==
    <<"p", "e", "r", "m", "i", "s", "s", "i", "o", "n", " ", "d", "e", "n",
      "i", "e", "d", " ", "f", "o", "r", " ", "t", "a", "b", "l", "e", " ",
      "p", "r", "o", "j", "e", "c", "t", "s">>

Code42501 ==
    <<"4", "2", "5", "0", "1">>

TextGatewayNotFound ==
    <<"N", "o", "t", " ", "F", "o", "u", "n", "d">>

TextConnRefused ==
    <<"C", "o", "n", "n", "e", "c", "t", "i", "o", "n", " ", "r", "e", "f",
      "u", "s", "e", "d">>

\* the column read at chat.py:458
KeyDiagramJson ==
    <<"d", "i", "a", "g", "r", "a", "m", "_", "j", "s", "o", "n">>

\* Identifiers and messages of the requests of the model.
RequestIds == {IdNotUuid, IdA, IdB, IdMissing, IdUrn}

RequestMessages == {MsgHi, MsgAddDb}

\* chat.py:508, .limit(20)
HistoryLimit == 20

\* The most exchanges the store holds for project IdA before the request.
MaxStoredExchanges == 11

\* The numbers of stored exchanges the model starts from: none, one, as many
\* as fill the history limit less one row pair, and the most.
StoredExchangeCounts == {0, 1, MaxStoredExchanges - 1, MaxStoredExchanges}

\* The projects table: project id -> row.
InitProjects ==
    (IdA :> [diagram_json |-> PyDict(<<>>)]) @@ (IdB :> [diagram_json |-> PyNone])

\* chat_messages rows of n earlier exchanges of project IdA, after one
\* exchange of project IdB; the store stamps rows in insertion order.
InitMessages(n) ==
    {[id |-> 1, project_id |-> IdB, role |-> RoleUser,
      content |-> PyStr(StoredQuestion), created_at |-> 1],
     [id |-> 2, project_id |-> IdB, role |-> RoleAssistant,
      content |-> PyStr(StoredAnswer), created_at |-> 2]}
    \cup {[id |-> 2 * k + 1, project_id |-> IdA, role |-> RoleUser,
           content |-> PyStr(StoredQuestion), created_at |-> 2 * k + 1] : k \in 1..n}
    \cup {[id |-> 2 * k + 2, project_id |-> IdA, role |-> RoleAssistant,
           content |-> PyStr(StoredAnswer), created_at |-> 2 * k + 2] : k \in 1..n}

\* The store accepts an identifier as a uuid value: the canonical
\* 8-4-4-4-12 form (the urn: form that uuid.UUID accepts is rejected with
\* error 22P02).
StoreAcceptsUuid(id) ==
    /\ Len(id) = 36
    /\ \A i \in 1..36 : IF i \in {9, 14, 19, 24} THEN id[i] = "-" ELSE IsHex(id[i])

ApiError(message, code) == [cls |-> "APIError", message |-> message, code |-> code]

OtherError(message) == [cls |-> "Exception", message |-> message, code |-> <<>>]

\* Errors any store call may raise whatever the rows are.
StoreFaults ==
    {ApiError(TextDenied, Code42501), ApiError(TextGatewayNotFound, <<>>),
     OtherError(TextConnRefused), OtherError(TextGatewayNotFound),
     OtherError(TextBadUuid)}

\* What projects.select(...).eq("id", id).single().execute() may do:
\* [raised, error] or [raised, data].
LookupOutcomes(projects, id) ==
    {[raised |-> TRUE, error |-> e, data |-> PyNone] : e \in StoreFaults}
    \cup
    (IF ~StoreAcceptsUuid(id)
     THEN {[raised |-> TRUE, error |-> ApiError(TextBadUuid, Pg22P02), data |-> PyNone]}
     ELSE IF id \in DOMAIN projects
     THEN {[raised |-> FALSE, error |-> PyNone,
            data |-> PyDict(<<[k |-> KeyDiagramJson,
                             v |-> projects[id].diagram_json]>>)]}
     ELSE {[raised |-> TRUE, error |-> ApiError(TextNoRowsReturned, Pgrst116),
            data |-> PyNone],
           [raised |-> FALSE, error |-> PyNone, data |-> PyNone]})

RECURSIVE OrderByCreatedAt(_)
\* .order("created_at", desc=False) on a set of rows
OrderByCreatedAt(rows) ==
    IF rows = {} THEN <<>>
    ELSE LET first == CHOOSE r \in rows : \A o \in rows : r.created_at <= o.created_at
         IN  <<first>> \o OrderByCreatedAt(rows \ {first})

\* .limit(n)
Limit(rows, n) == IF Len(rows) > n THEN SubSeq(rows, 1, n) ELSE rows

\* .select("role, content, created_at")
SelectColumns(rows) ==
    [i \in 1..Len(rows) |->
        [role |-> rows[i].role, content |-> rows[i].content,
         created_at |-> rows[i].created_at]]

\* a faulty variant of HistoryQuery: the rows are not filtered by project
HistoryQueryAnyProject(table, id) ==
    SelectColumns(Limit(OrderByCreatedAt(table), HistoryLimit))

\* chat.py:503-510: chat_messages.select("role, content, created_at")
\* .eq("project_id", id).order("created_at", desc=False).limit(20)
HistoryQuery(table, id) ==
    SelectColumns(Limit(OrderByCreatedAt({r \in table : r.project_id = id}),
                        HistoryLimit))

\* str(value) inside an f-string, for the values a message can be
PyFormat(value) ==
    CASE value.t = "str"  -> value.v
      [] value.t = "none" -> <<"N", "o", "n", "e">>
      [] value.t = "int"  -> IF value.v < 0 THEN <<"-">> \o IntChars(0 - value.v)
                             ELSE IntChars(value.v)
      [] value.t = "bool" -> IF value.v THEN <<"T", "r", "u", "e">> ELSE <<"F", "a", "l", "s", "e">>
      [] OTHER            -> <<"?">>

RECURSIVE JoinLines(_)
\* "\n".join(lines)
JoinLines(lines) ==
    IF lines = <<>> THEN <<>>
    ELSE IF Len(lines) = 1 THEN lines[1]
    ELSE lines[1] \o <<"\n">> \o JoinLines(Tail(lines))

\* a faulty variant of HistoryText: no placeholder for an empty history
HistoryTextNoPlaceholder(history_rows) ==
    JoinLines([i \in 1..Len(history_rows) |->
                  Upper(history_rows[i].role) \o ColonSpace
                      \o PyFormat(history_rows[i].content)])

\* chat.py:516-520
HistoryText(history_rows) ==
    IF history_rows # <<>>
    THEN JoinLines([i \in 1..Len(history_rows) |->
                       Upper(history_rows[i].role) \o ColonSpace
                           \o PyFormat(history_rows[i].content)])
    ELSE NoPreviousMessages

\* bool(value) for the values a store result can hold
Truthy(value) ==
    CASE value.t = "none" -> FALSE
      [] value.t = "bool" -> value.v
      [] value.t = "int"  -> value.v # 0
      [] OTHER            -> value.v # <<>>

\* a faulty variant of ValidationFailure: the identifier is not checked
ValidationFailureNoUuidCheck(projectId, client, e) ==
    IF client = "none" THEN [status |-> 503, detail |-> "supabase_not_configured"]
    ELSE IF e.GEMINI_API_KEY = <<>>
    THEN [status |-> 503, detail |-> "gemini_not_configured"]
    ELSE [status |-> 0, detail |-> ""]

\* a faulty variant of ValidationFailure: the configuration checks come before the
\* identifier check
ValidationFailureConfigFirst(projectId, client, e) ==
    IF client = "none" THEN [status |-> 503, detail |-> "supabase_not_configured"]
    ELSE IF e.GEMINI_API_KEY = <<>>
    THEN [status |-> 503, detail |-> "gemini_not_configured"]
    ELSE IF ~UuidParses(projectId)
    THEN [status |-> 400, detail |-> "invalid_project_id"]
    ELSE [status |-> 0, detail |-> ""]

\* chat.py:433-454: the HTTPException the three checks raise, status 0 when
\* all pass
ValidationFailure(projectId, client, e) ==
    IF ~UuidParses(projectId)
    THEN [status |-> 400, detail |-> "invalid_project_id"]
    ELSE IF client = "none"
    THEN [status |-> 503, detail |-> "supabase_not_configured"]
    ELSE IF e.GEMINI_API_KEY = <<>>
    THEN [status |-> 503, detail |-> "gemini_not_configured"]
    ELSE [status |-> 0, detail |-> ""]

\* a faulty variant of LookupFailure: every store error is reported as internal
LookupFailureAlwaysInternal(e) == [status |-> 500, detail |-> "database_error"]

\* a faulty variant of LookupFailure: the class of the exception is not
\* looked at
LookupFailureAnyClass(e) ==
    IF Contains(Lower(e.message), UuidSyntaxText) \/ e.code = Pg22P02
    THEN [status |-> 400, detail |-> "invalid_project_id_store"]
    ELSE IF \/ Contains(Lower(e.message), NotFoundText)
            \/ Contains(Lower(e.message), NoRowsText)
            \/ Contains(e.code, Pgrst116)
    THEN [status |-> 404, detail |-> "project_not_found"]
    ELSE [status |-> 500, detail |-> "database_error"]

\* chat.py:459-492: the HTTPException raised for an error of the project
\* lookup.  An APIError carries a dict with message and code.
LookupFailure(e) ==
    IF e.cls = "APIError"
    THEN IF Contains(Lower(e.message), UuidSyntaxText) \/ e.code = Pg22P02
         THEN [status |-> 400, detail |-> "invalid_project_id_store"]
         ELSE IF \/ Contains(Lower(e.message), NotFoundText)
                 \/ Contains(Lower(e.message), NoRowsText)
                 \/ Contains(e.code, Pgrst116)
         THEN [status |-> 404, detail |-> "project_not_found"]
         ELSE [status |-> 500, detail |-> "database_error"]
    ELSE IF Contains(Lower(e.message), UuidSyntaxText)
         THEN [status |-> 400, detail |-> "invalid_project_id_store"]
         ELSE [status |-> 500, detail |-> "error_loading_project"]

(***************************************************************************)
(* Model resolution and the model call: chat.py:588-739                    *)
(***************************************************************************)

\* chat.py:615-624
preferred_models ==
    <<<<"g", "e", "m", "i", "n", "i", "-", "2", ".", "5", "-", "f", "l", "a",
       "s", "h">>,
      <<"g", "e", "m", "i", "n", "i", "-", "2", ".", "0", "-", "f", "l", "a",
       "s", "h">>,
      <<"g", "e", "m", "i", "n", "i", "-", "f", "l", "a", "s", "h", "-", "l",
       "a", "t", "e", "s", "t">>,
      <<"g", "e", "m", "i", "n", "i", "-", "2", ".", "5", "-", "f", "l", "a",
       "s", "h", "-", "l", "i", "t", "e">>,
      <<"g", "e", "m", "i", "n", "i", "-", "2", ".", "0", "-", "f", "l", "a",
       "s", "h", "-", "l", "i", "t", "e">>,
      <<"g", "e", "m", "i", "n", "i", "-", "p", "r", "o", "-", "l", "a", "t",
       "e", "s", "t">>,
      <<"g", "e", "m", "i", "n", "i", "-", "1", ".", "5", "-", "f", "l", "a",
       "s", "h">>,
      <<"g", "e", "m", "i", "n", "i", "-", "1", ".", "5", "-", "p", "r",
       "o">>>>

\* chat.py:638,650
ExpMarker ==
    <<"-", "e", "x", "p">>

\* chat.py:639,651
PreviewMarker ==
    <<"-", "p", "r", "e", "v", "i", "e", "w">>

Full_models_gemini_2_0_flash_exp ==
    <<"m", "o", "d", "e", "l", "s", "/", "g", "e", "m", "i", "n", "i", "-",
      "2", ".", "0", "-", "f", "l", "a", "s", "h", "-", "e", "x", "p">>

Full_models_gemini_2_5_flash ==
    <<"m", "o", "d", "e", "l", "s", "/", "g", "e", "m", "i", "n", "i", "-",
      "2", ".", "5", "-", "f", "l", "a", "s", "h">>

Full_models_gemini_1_5_pro ==
    <<"m", "o", "d", "e", "l", "s", "/", "g", "e", "m", "i", "n", "i", "-",
      "1", ".", "5", "-", "p", "r", "o">>

Full_models_gemini_2_5_pro_preview ==
    <<"m", "o", "d", "e", "l", "s", "/", "g", "e", "m", "i", "n", "i", "-",
      "2", ".", "5", "-", "p", "r", "o", "-", "p", "r", "e", "v", "i", "e",
      "w">>

Full_models_gemma_3 ==
    <<"m", "o", "d", "e", "l", "s", "/", "g", "e", "m", "m", "a", "-", "3">>

Full_models_embedding_001 ==
    <<"m", "o", "d", "e", "l", "s", "/", "e", "m", "b", "e", "d", "d", "i",
      "n", "g", "-", "0", "0", "1">>

Full_tunedModels_gemini_2_0_flash_lite ==
    <<"t", "u", "n", "e", "d", "M", "o", "d", "e", "l", "s", "/", "g", "e",
      "m", "i", "n", "i", "-", "2", ".", "0", "-", "f", "l", "a", "s", "h",
      "-", "l", "i", "t", "e">>

\* Model descriptors the provider may list: name and supported_generation_methods.
Catalog ==
    {[name |-> Full_models_gemini_2_0_flash_exp, methods |-> {"generateContent", "countTokens"}],
     [name |-> Full_models_gemini_2_5_flash, methods |-> {"generateContent", "countTokens"}],
     [name |-> Full_models_gemini_1_5_pro, methods |-> {"generateContent", "countTokens"}],
     [name |-> Full_models_gemini_2_5_pro_preview, methods |-> {"generateContent", "countTokens"}],
     [name |-> Full_models_gemma_3, methods |-> {"generateContent", "countTokens"}],
     [name |-> Full_models_embedding_001, methods |-> {"embedContent"}],
     [name |-> Full_tunedModels_gemini_2_0_flash_lite, methods |-> {"generateContent", "countTokens"}]}

\* chat.py:672-676
NoModelsHead ==
    <<"N", "o", " ", "a", "v", "a", "i", "l", "a", "b", "l", "e", " ", "G",
      "e", "m", "i", "n", "i", " ", "m", "o", "d", "e", "l", "s", " ", "f",
      "o", "u", "n", "d", ".", " ">>

AvailableModelsHead ==
    <<"A", "v", "a", "i", "l", "a", "b", "l", "e", " ", "m", "o", "d", "e",
      "l", "s", ":", " ">>

CheckApiKeyText ==
    <<"P", "l", "e", "a", "s", "e", " ", "c", "h", "e", "c", "k", " ", "y",
      "o", "u", "r", " ", "A", "P", "I", " ", "k", "e", "y", " ", "a", "n",
      "d", " ", "m", "o", "d", "e", "l", " ", "a", "v", "a", "i", "l", "a",
      "b", "i", "l", "i", "t", "y", ".">>

CommaSpace ==
    <<",", " ">>

\* str(HTTPException(503, detail)) is "503: " + detail
Status503Text ==
    <<"5", "0", "3", ":", " ">>

\* chat.py:724-725
Text429 ==
    <<"4", "2", "9">>

QuotaText ==
    <<"q", "u", "o", "t", "a">>

RateLimitText ==
    <<"r", "a", "t", "e", " ", "l", "i", "m", "i", "t">>

FreeTierText ==
    <<"f", "r", "e", "e", "_", "t", "i", "e", "r">>

ProvErrExhausted ==
    <<"4", "2", "9", " ", "R", "e", "s", "o", "u", "r", "c", "e", " ", "h",
      "a", "s", " ", "b", "e", "e", "n", " ", "e", "x", "h", "a", "u", "s",
      "t", "e", "d", " ", "(", "e", ".", "g", ".", " ", "c", "h", "e", "c",
      "k", " ", "q", "u", "o", "t", "a", ")", ".">>

ProvErrFreeTier ==
    <<"Q", "u", "o", "t", "a", " ", "e", "x", "c", "e", "e", "d", "e", "d",
      " ", "f", "o", "r", " ", "m", "e", "t", "r", "i", "c", " ", "g", "e",
      "n", "e", "r", "a", "t", "e", "_", "c", "o", "n", "t", "e", "n", "t",
      "_", "f", "r", "e", "e", "_", "t", "i", "e", "r", "_", "r", "e", "q",
      "u", "e", "s", "t", "s">>

ProvErrRateLimit ==
    <<"R", "a", "t", "e", " ", "L", "i", "m", "i", "t", " ", "r", "e", "a",
      "c", "h", "e", "d", ",", " ", "r", "e", "t", "r", "y", " ", "l", "a",
      "t", "e", "r">>

ProvErrInternal ==
    <<"5", "0", "0", " ", "A", "n", " ", "i", "n", "t", "e", "r", "n", "a",
      "l", " ", "e", "r", "r", "o", "r", " ", "h", "a", "s", " ", "o", "c",
      "c", "u", "r", "r", "e", "d">>

ProvErrTooMany ==
    <<"4", "2", "9", " ", "T", "o", "o", " ", "M", "a", "n", "y", " ", "R",
      "e", "q", "u", "e", "s", "t", "s">>

\* Messages of the errors the provider may raise.
ProviderErrors ==
    {ProvErrExhausted, ProvErrFreeTier, ProvErrRateLimit, ProvErrInternal,
     ProvErrTooMany}

\* '{''message'':''x'',''operations'':[]}'
ReplyStrict ==
    <<"{", "\"", "m", "e", "s", "s", "a", "g", "e", "\"", ":", "\"", "x",
      "\"", ",", "\"", "o", "p", "e", "r", "a", "t", "i", "o", "n", "s",
      "\"", ":", "[", "]", "}">>

\* '{''message'':''hi'',''operations'':[{''op'':''add_node'',''payload'':{}}]}'
ReplyWithOps ==
    <<"{", "\"", "m", "e", "s", "s", "a", "g", "e", "\"", ":", "\"", "h",
      "i", "\"", ",", "\"", "o", "p", "e", "r", "a", "t", "i", "o", "n", "s",
      "\"", ":", "[", "{", "\"", "o", "p", "\"", ":", "\"", "a", "d", "d",
      "_", "n", "o", "d", "e", "\"", ",", "\"", "p", "a", "y", "l", "o", "a",
      "d", "\"", ":", "{", "}", "}", "]", "}">>

\* '[{''op'':''add_node'',''payload'':{}}]'
ReplyLegacyArray ==
    <<"[", "{", "\"", "o", "p", "\"", ":", "\"", "a", "d", "d", "_", "n",
      "o", "d", "e", "\"", ",", "\"", "p", "a", "y", "l", "o", "a", "d",
      "\"", ":", "{", "}", "}", "]">>

\* '[{''op'':''a''},{''op'':''b''}]'
ReplyLegacyTwo ==
    <<"[", "{", "\"", "o", "p", "\"", ":", "\"", "a", "\"", "}", ",", "{",
      "\"", "o", "p", "\"", ":", "\"", "b", "\"", "}", "]">>

\* '[]'
ReplyEmptyArray ==
    <<"[", "]">>

\* '[1,2]'
ReplyNumberArray ==
    <<"[", "1", ",", "2", "]">>

\* '42'
ReplyNumber ==
    <<"4", "2">>

\* '''hi'''
ReplyString ==
    <<"\"", "h", "i", "\"">>

\* 'null'
ReplyNull ==
    <<"n", "u", "l", "l">>

\* 'not json at all'
ReplyProse ==
    <<"n", "o", "t", " ", "j", "s", "o", "n", " ", "a", "t", " ", "a", "l",
      "l">>

\* '{''message'':null}'
ReplyMessageNull ==
    <<"{", "\"", "m", "e", "s", "s", "a", "g", "e", "\"", ":", "n", "u", "l",
      "l", "}">>

\* '{''message'':''''}'
ReplyMessageEmpty ==
    <<"{", "\"", "m", "e", "s", "s", "a", "g", "e", "\"", ":", "\"", "\"",
      "}">>

\* '{''message'':5,''operations'':[]}'
ReplyMessageNumber ==
    <<"{", "\"", "m", "e", "s", "s", "a", "g", "e", "\"", ":", "5", ",",
      "\"", "o", "p", "e", "r", "a", "t", "i", "o", "n", "s", "\"", ":", "[",
      "]", "}">>

\* '{''operations'':5}'
ReplyOpsNumber ==
    <<"{", "\"", "o", "p", "e", "r", "a", "t", "i", "o", "n", "s", "\"", ":",
      "5", "}">>

\* '{''message'':''x'',''operations'':{''a'':1}}'
ReplyOpsObject ==
    <<"{", "\"", "m", "e", "s", "s", "a", "g", "e", "\"", ":", "\"", "x",
      "\"", ",", "\"", "o", "p", "e", "r", "a", "t", "i", "o", "n", "s",
      "\"", ":", "{", "\"", "a", "\"", ":", "1", "}", "}">>

\* ''''json\n{''message'':''x'',''operations'':[]}\n''''
ReplyFencedJson ==
    <<BQ, BQ, BQ, "j", "s", "o", "n", "\n", "{", "\"", "m", "e", "s", "s",
      "a", "g", "e", "\"", ":", "\"", "x", "\"", ",", "\"", "o", "p", "e",
      "r", "a", "t", "i", "o", "n", "s", "\"", ":", "[", "]", "}", "\n", BQ,
      BQ, BQ>>

\* ''''\n{''message'':''x'',''operations'':[]}\n''''
ReplyFencedPlain ==
    <<BQ, BQ, BQ, "\n", "{", "\"", "m", "e", "s", "s", "a", "g", "e", "\"",
      ":", "\"", "x", "\"", ",", "\"", "o", "p", "e", "r", "a", "t", "i",
      "o", "n", "s", "\"", ":", "[", "]", "}", "\n", BQ, BQ, BQ>>

\* 'prefix {''message'':''x'',''operations'':[]} suffix'
ReplyInProse ==
    <<"p", "r", "e", "f", "i", "x", " ", "{", "\"", "m", "e", "s", "s", "a",
      "g", "e", "\"", ":", "\"", "x", "\"", ",", "\"", "o", "p", "e", "r",
      "a", "t", "i", "o", "n", "s", "\"", ":", "[", "]", "}", " ", "s", "u",
      "f", "f", "i", "x">>

\* '{''a'':1} and {''message'':''x''}'
ReplyTwoObjects ==
    <<"{", "\"", "a", "\"", ":", "1", "}", " ", "a", "n", "d", " ", "{",
      "\"", "m", "e", "s", "s", "a", "g", "e", "\"", ":", "\"", "x", "\"",
      "}">>

\* '{''a'':{''b'':{''c'':1}}} {''operations'':[1]}'
ReplyDeepThenOps ==
    <<"{", "\"", "a", "\"", ":", "{", "\"", "b", "\"", ":", "{", "\"", "c",
      "\"", ":", "1", "}", "}", "}", " ", "{", "\"", "o", "p", "e", "r", "a",
      "t", "i", "o", "n", "s", "\"", ":", "[", "1", "]", "}">>

\* '{''message'':''x'''
ReplyUnclosed ==
    <<"{", "\"", "m", "e", "s", "s", "a", "g", "e", "\"", ":", "\"", "x",
      "\"">>

\* '{''message'':''a } b'',''operations'':[]}'
ReplyBraceInString ==
    <<"{", "\"", "m", "e", "s", "s", "a", "g", "e", "\"", ":", "\"", "a",
      " ", "}", " ", "b", "\"", ",", "\"", "o", "p", "e", "r", "a", "t", "i",
      "o", "n", "s", "\"", ":", "[", "]", "}">>

\* '  \n '
ReplyBlank ==
    <<" ", " ", "\n", " ">>

\* ''''json\n[1]'
ReplyFenceUnclosed ==
    <<BQ, BQ, BQ, "j", "s", "o", "n", "\n", "[", "1", "]">>

\* ''''json\n{''message'':''use ''' ok''}\n''''
ReplyFenceInString ==
    <<BQ, BQ, BQ, "j", "s", "o", "n", "\n", "{", "\"", "m", "e", "s", "s",
      "a", "g", "e", "\"", ":", "\"", "u", "s", "e", " ", BQ, BQ, BQ, " ",
      "o", "k", "\"", "}", "\n", BQ, BQ, BQ>>

\* '{}'
ReplyNoKeys ==
    <<"{", "}">>

\* '{''a'':1} and {''message'':null,''operations'':[1]}'
ReplyNullInProse ==
    <<"{", "\"", "a", "\"", ":", "1", "}", " ", "a", "n", "d", " ", "{",
      "\"", "m", "e", "s", "s", "a", "g", "e", "\"", ":", "n", "u", "l", "l",
      ",", "\"", "o", "p", "e", "r", "a", "t", "i", "o", "n", "s", "\"", ":",
      "[", "1", "]", "}">>

\* 'see {''message'':''a } b''} ok'
ReplyUnbalanced ==
    <<"s", "e", "e", " ", "{", "\"", "m", "e", "s", "s", "a", "g", "e", "\"",
      ":", "\"", "a", " ", "}", " ", "b", "\"", "}", " ", "o", "k">>

\* Texts the model may reply with (response.text).
ReplyTexts ==
    {ReplyStrict,
     ReplyWithOps,
     ReplyLegacyArray,
     ReplyLegacyTwo,
     ReplyEmptyArray,
     ReplyNumberArray,
     ReplyNumber,
     ReplyString,
     ReplyNull,
     ReplyProse,
     ReplyMessageNull,
     ReplyMessageEmpty,
     ReplyMessageNumber,
     ReplyOpsNumber,
     ReplyOpsObject,
     ReplyFencedJson,
     ReplyFencedPlain,
     ReplyInProse,
     ReplyTwoObjects,
     ReplyDeepThenOps,
     ReplyUnclosed,
     ReplyBraceInString,
     ReplyBlank,
     ReplyFenceUnclosed,
     ReplyFenceInString,
     ReplyNoKeys,
     ReplyNullInProse,
     ReplyUnbalanced}

\* The most descriptors genai.list_models() yields in the model.
MaxModels == 3

RECURSIVE ListsOver(_, _)
\* the sequences of at most n distinct elements of pool
ListsOver(pool, n) ==
    IF n = 0 THEN {<<>>}
    ELSE LET shorter == ListsOver(pool, n - 1)
         IN  shorter \cup {Append(l, d) : l \in {s \in shorter : Len(s) = n - 1},
                                          d \in pool}

\* What genai.list_models() may yield.
LiveLists ==
    {l \in ListsOver(Catalog, MaxModels) :
        \A i, j \in 1..Len(l) : i # j => l[i] # l[j]}

\* chat.py:595: model.name.split('/')[-1] if '/' in model.name else model.name
DisplayName(name) ==
    LET slash == RFind(name, <<"/">>)
    IN  IF slash # 0 THEN Slice(name, slash + 1, Len(name)) ELSE name

RECURSIVE AvailableModels(_)
\* chat.py:594-601: the descriptors advertising generateContent, in order
AvailableModels(listed) ==
    IF listed = <<>> THEN <<>>
    ELSE LET m    == Head(listed)
             rest == AvailableModels(Tail(listed))
         IN  IF "generateContent" \in m.methods
             THEN <<[name |-> DisplayName(m.name), full_name |-> m.name]>> \o rest
             ELSE rest

\* chat.py:634-636
MatchesPreferred(name, preferred) ==
    \/ name = preferred
    \/ StartsWith(name, preferred)
    \/ Contains(name, preferred)

\* a faulty variant of IsFreeTier: only the experimental marker is rejected
IsFreeTierExpOnly(name) == ~Contains(Lower(name), ExpMarker)

\* chat.py:638-639 and 650-651
IsFreeTier(name) ==
    /\ ~Contains(Lower(name), ExpMarker)
    /\ ~Contains(Lower(name), PreviewMarker)

\* chat.py:632-643, the inner loop: the index of the first listed model that
\* matches preferred and is free tier, 0 when none
FirstMatch(available, preferred) ==
    LET hits == {i \in 1..Len(available) :
                    /\ MatchesPreferred(available[i].name, preferred)
                    /\ IsFreeTier(available[i].name)}
    IN  IF hits = {} THEN 0 ELSE CHOOSE i \in hits : \A j \in hits : i <= j

RECURSIVE PreferredPickFrom(_, _)
\* chat.py:630-645, the outer loop from preference p on: the selected name,
\* the empty string when no preference has a free-tier match
PreferredPickFrom(available, p) ==
    IF p > Len(preferred_models) THEN <<>>
    ELSE LET i == FirstMatch(available, preferred_models[p])
         IN  IF i # 0 THEN available[i].name
             ELSE PreferredPickFrom(available, p + 1)

\* a faulty variant of PreferredPick: the listed models are scanned first, the
\* preferences second
PreferredPickListFirst(available) ==
    LET hits == {i \in 1..Len(available) :
                    /\ IsFreeTier(available[i].name)
                    /\ \E p \in 1..Len(preferred_models) :
                          MatchesPreferred(available[i].name, preferred_models[p])}
    IN  IF hits = {} THEN <<>>
        ELSE available[CHOOSE i \in hits : \A j \in hits : i <= j].name

\* chat.py:630-645
PreferredPick(available) == PreferredPickFrom(available, 1)

\* chat.py:648-655: the first listed free-tier model, the empty string when
\* none
FirstFreeTier(available) ==
    LET hits == {i \in 1..Len(available) : IsFreeTier(available[i].name)}
    IN  IF hits = {} THEN <<>>
        ELSE available[CHOOSE i \in hits : \A j \in hits : i <= j].name

\* chat.py:658-669: the first preferred name whose direct construction does
\* not raise; constructible is the set of names the provider library builds
DirectPick(constructible) ==
    LET hits == {p \in 1..Len(preferred_models) : preferred_models[p] \in constructible}
    IN  IF hits = {} THEN <<>>
        ELSE preferred_models[CHOOSE p \in hits : \A q \in hits : p <= q]

\* What genai.GenerativeModel(name) may accept.
ConstructibleChoices ==
    {{}, {preferred_models[Len(preferred_models)]}, {preferred_models[p] : p \in 1..Len(preferred_models)}}

\* chat.py:657-669: the direct attempt, made when no name was selected
ResolveDirect(direct) ==
    IF direct # <<>>
    THEN [model_name |-> direct, how |-> "direct"]
    ELSE [model_name |-> <<>>, how |-> "none"]

\* chat.py:647-669 once the preferred names gave nothing
ResolveByOrder(byOrder, constructible) ==
    IF byOrder # <<>>
    THEN [model_name |-> byOrder, how |-> "first_free_tier"]
    ELSE ResolveDirect(DirectPick(constructible))

\* a faulty variant of ResolveFrom: direct construction is tried before the
\* first listed free-tier model
ResolveFromDirectFirst(available, byPreference, constructible) ==
    IF byPreference # <<>>
    THEN [model_name |-> byPreference, how |-> "preferred"]
    ELSE IF DirectPick(constructible) # <<>>
    THEN [model_name |-> DirectPick(constructible), how |-> "direct"]
    ELSE ResolveByOrder(IF available # <<>> THEN FirstFreeTier(available) ELSE <<>>,
                        constructible)

\* chat.py:629-669 for the pick byPreference of the preferred loop
ResolveFrom(available, byPreference, constructible) ==
    IF byPreference # <<>>
    THEN [model_name |-> byPreference, how |-> "preferred"]
    ELSE ResolveByOrder(IF available # <<>> THEN FirstFreeTier(available) ELSE <<>>,
                        constructible)

\* chat.py:626-669: model_name and the strategy that set it
ResolveModel(available, constructible) ==
    ResolveFrom(available,
                IF available # <<>> THEN PreferredPick(available) ELSE <<>>,
                constructible)

RECURSIVE JoinNames(_)
\* ', '.join(names)
JoinNames(names) ==
    IF names = <<>> THEN <<>>
    ELSE IF Len(names) = 1 THEN names[1]
    ELSE names[1] \o CommaSpace \o JoinNames(Tail(names))

\* chat.py:674, available_models[:5]
NamesShown == 5

\* chat.py:672-676: the detail of the 503 raised when no model is usable
NoModelDetail(available) ==
    NoModelsHead \o
    (IF available # <<>>
     THEN AvailableModelsHead
          \o JoinNames([i \in 1..(IF Len(available) > NamesShown THEN NamesShown
                                  ELSE Len(available)) |-> available[i].name])
     ELSE CheckApiKeyText)

\* a faulty variant of ProviderFailure: the status code in the message is
\* not looked for
ProviderFailureNoCode(error_msg) ==
    IF \/ Contains(Lower(error_msg), QuotaText)
       \/ Contains(Lower(error_msg), RateLimitText)
    THEN IF Contains(Lower(error_msg), FreeTierText)
         THEN [status |-> 429, detail |-> "free_tier_quota_exceeded"]
         ELSE [status |-> 429, detail |-> "rate_limit_exceeded"]
    ELSE [status |-> 500, detail |-> "gemini_api_error"]

\* chat.py:718-736: the HTTPException raised for an exception with message
\* error_msg caught around the model call
ProviderFailure(error_msg) ==
    IF \/ Contains(error_msg, Text429)
       \/ Contains(Lower(error_msg), QuotaText)
       \/ Contains(Lower(error_msg), RateLimitText)
    THEN IF Contains(Lower(error_msg), FreeTierText)
         THEN [status |-> 429, detail |-> "free_tier_quota_exceeded"]
         ELSE [status |-> 429, detail |-> "rate_limit_exceeded"]
    ELSE [status |-> 500, detail |-> "gemini_api_error"]

(***************************************************************************)
(* The chat request state machine: chat.py:430-831                         *)
(***************************************************************************)

\* Worker processes; each serves one request at a time.
Workers == {"w1", "w2"}

\* The workers of a single-process deployment.
MainWorkers == {"w1"}

VARIABLES
    Env,            \* env.py: the Env class attributes
    supabase,       \* supabase_client.py: "client" or "none"
    projects,       \* store table projects
    chat_messages,  \* store table chat_messages, a set of rows
    req,            \* per worker: the request in hand, its locals and its response
    dep,            \* deployment.py: the deploy_to_railway request in hand
    stat            \* deployment.py: the get_deployment_status request in hand

vars == <<Env, supabase, projects, chat_messages, req, dep, stat>>

\* A worker with no request in hand.
IdleRequest ==
    [pc               |-> "idle",
     projectId        |-> <<>>,
     message          |-> <<>>,
     lookup           |-> "none",
     lookup_error     |-> PyNone,
     diagram_json     |-> PyNone,
     history_load     |-> "none",
     history_rows     |-> <<>>,
     history_text     |-> <<>>,
     listed           |-> FALSE,
     available_models |-> <<>>,
     model_name       |-> <<>>,
     how              |-> "",
     error_msg        |-> <<>>,
     prompt           |-> <<>>,
     model_call       |-> "none",
     response_text    |-> <<>>,
     reply_text       |-> <<>>,
     branch           |-> "",
     assistant_message |-> PyNone,
     operations       |-> PyNone,
     persisted        |-> FALSE,
     status           |-> 0,
     detail           |-> "",
     raised           |-> 0,
     store_calls      |-> 0,
     provider_calls   |-> 0]

\* No deploy_to_railway request in hand; the fields are the handler's locals,
\* the calls made on the cloud client, and the response.
IdleDeploy ==
    [pc                 |-> "idle",
     projectId          |-> <<>>,
     projectName        |-> <<>>,
     lookup             |-> "none",
     nodes              |-> <<>>,
     diagram_name       |-> <<>>,
     railway_config     |-> PyNone,
     railway_project_id |-> <<>>,
     i                  |-> 0,
     deployed_services  |-> <<>>,
     deployed_databases |-> <<>>,
     errors             |-> <<>>,
     calls              |-> <<>>,
     stored             |-> FALSE,
     status             |-> 0,
     detail             |-> "",
     response           |-> PyNone]

\* No get_deployment_status request in hand.
IdleStatus ==
    [pc        |-> "idle",
     projectId |-> <<>>,
     lookup    |-> "none",
     raised    |-> 0,
     status    |-> 0,
     detail    |-> "",
     response  |-> PyNone]

Init ==
    /\ \E raw \in RawEnvs, create_ok \in BOOLEAN :
          /\ Env = LoadEnv(raw)
          /\ supabase = InitSupabase(LoadEnv(raw), create_ok)
    /\ projects = InitProjects
    /\ \E n \in StoredExchangeCounts : chat_messages = InitMessages(n)
    /\ req = [w \in Workers |-> IdleRequest]
    /\ dep = IdleDeploy
    /\ stat = IdleStatus

\* raise HTTPException(status_code, detail) reaching the caller; raised keeps
\* the status of the first HTTPException raised inside the handler
Fail(r, status, detail) ==
    [r EXCEPT !.pc = "failed", !.status = status, !.detail = detail,
              !.raised = IF @ = 0 THEN status ELSE @]

\* raise HTTPException for the failure f
FailWith(r, f) == Fail(r, f.status, f.detail)

\* chat.py:426-431: a POST /chat request arrives.  The framework builds
\* ChatRequest(projectId, message) from the body before the handler runs; a
\* body that lacks one of the two fields never reaches the handler and is
\* answered 422.
Receive(w) ==
    /\ req[w].pc = "idle"
    /\ \/ \E id \in RequestIds, m \in RequestMessages :
             req' = [req EXCEPT ![w] = [IdleRequest EXCEPT !.pc = "validating",
                                                           !.projectId = id,
                                                           !.message = m]]
       \/ req' = [req EXCEPT ![w] = [IdleRequest EXCEPT !.pc = "rejected",
                                                        !.status = 422,
                                                        !.detail = "body_not_valid"]]
    /\ UNCHANGED <<Env, supabase, projects, chat_messages, dep, stat>>

\* chat.py:433-454
Validate(w) ==
    /\ req[w].pc = "validating"
    /\ req' = [req EXCEPT ![w] =
                  IF ValidationFailure(@.projectId, supabase, Env).status # 0
                  THEN FailWith(@, ValidationFailure(@.projectId, supabase, Env))
                  ELSE [@ EXCEPT !.pc = "loading_project"]]
    /\ UNCHANGED <<Env, supabase, projects, chat_messages, dep, stat>>

\* chat.py:456-499 for the outcome o of the store call
Looked(r, o) ==
    IF o.raised
    THEN FailWith([r EXCEPT !.lookup = "raised", !.lookup_error = o.error],
                  LookupFailure(o.error))
    ELSE IF ~Truthy(o.data)
    THEN Fail([r EXCEPT !.lookup = "no_data"], 404, "project_not_in_database")
    ELSE [r EXCEPT !.pc = "loading_history",
                   !.lookup = "data",
                   !.diagram_json = DictGet(o.data, KeyDiagramJson, PyDict(<<>>))]

\* chat.py:456-499
LoadProject(w) ==
    /\ req[w].pc = "loading_project"
    /\ \E o \in LookupOutcomes(projects, req[w].projectId) :
          req' = [req EXCEPT ![w] = Looked([@ EXCEPT !.store_calls = @ + 1], o)]
    /\ UNCHANGED <<Env, supabase, projects, chat_messages, dep, stat>>

\* chat.py:501-520 for the rows the history query gave
Recalled(r, load, rows) ==
    [r EXCEPT !.pc = "listing_models",
              !.store_calls = @ + 1,
              !.history_load = load,
              !.history_rows = rows,
              !.history_text = HistoryText(rows)]

\* a faulty variant of LoadHistory: the history of a project is read only
\* while no other request for the project is between its read and its write
LoadHistorySerialized(w) ==
    /\ req[w].pc = "loading_history"
    /\ \A v \in Workers \ {w} :
          req[v].projectId = req[w].projectId =>
              req[v].pc \notin {"listing_models", "resolving", "generating",
                                "cleaning", "normalizing", "persisting"}
    /\ \/ req' = [req EXCEPT ![w] =
                     Recalled(@, "rows", HistoryQuery(chat_messages, @.projectId))]
       \/ req' = [req EXCEPT ![w] = Recalled(@, "no_data", <<>>)]
       \/ req' = [req EXCEPT ![w] = Recalled(@, "error", <<>>)]
    /\ UNCHANGED <<Env, supabase, projects, chat_messages, dep, stat>>

\* chat.py:501-520: the history query, its except clause, and history_text
LoadHistory(w) ==
    /\ req[w].pc = "loading_history"
    /\ \/ req' = [req EXCEPT ![w] =
                     Recalled(@, "rows", HistoryQuery(chat_messages, @.projectId))]
       \/ req' = [req EXCEPT ![w] = Recalled(@, "no_data", <<>>)]
       \/ req' = [req EXCEPT ![w] = Recalled(@, "error", <<>>)]
    /\ UNCHANGED <<Env, supabase, projects, chat_messages, dep, stat>>

\* chat.py:590-610: genai.list_models(); an error of the listing is caught
\* and leaves available_models with what was appended before it
ListModels(w) ==
    /\ req[w].pc = "listing_models"
    /\ \/ \E l \in LiveLists :
             req' = [req EXCEPT ![w] =
                        [@ EXCEPT !.pc = "resolving",
                                  !.provider_calls = @ + 1,
                                  !.listed = TRUE,
                                  !.available_models = AvailableModels(l)]]
       \/ \E l \in {x \in LiveLists : Len(x) <= 1} :
             req' = [req EXCEPT ![w] =
                        [@ EXCEPT !.pc = "resolving",
                                  !.provider_calls = @ + 1,
                                  !.listed = FALSE,
                                  !.available_models = AvailableModels(l)]]
    /\ UNCHANGED <<Env, supabase, projects, chat_messages, dep, stat>>

\* chat.py:718-736: the except clause around the model call, for an
\* exception whose str() is error_msg
Caught(r, error_msg) ==
    FailWith([r EXCEPT !.error_msg = error_msg], ProviderFailure(error_msg))

\* chat.py:671-681 for the resolver's result sel
Selected(r, sel) ==
    IF sel.how = "none"
    THEN Caught([r EXCEPT !.how = "none", !.raised = 503],
                Status503Text \o NoModelDetail(r.available_models))
    ELSE [r EXCEPT !.pc = "generating", !.model_name = sel.model_name, !.how = sel.how]

\* chat.py:612-681 with the except clause of 718-736: the HTTPException(503)
\* of line 677 is raised inside the try block and is an Exception, so the
\* clause catches it and maps its str()
SelectModel(w) ==
    /\ req[w].pc = "resolving"
    /\ \E constructible \in ConstructibleChoices :
          req' = [req EXCEPT ![w] =
                     Selected(@, ResolveModel(@.available_models, constructible))]
    /\ UNCHANGED <<Env, supabase, projects, chat_messages, dep, stat>>

\* a faulty variant of SystemInstruction: the diagram and the history come
\* after the fixed text, the node types before the operations
SystemInstructionFixedTextFirst(diagram_json, history_text) ==
    <<[part |-> "persona",             fill |-> PyNone],
      [part |-> "response_format",     fill |-> PyNone],
      [part |-> "grid_spacing",        fill |-> PyNone],
      [part |-> "hierarchical_layout", fill |-> PyNone],
      [part |-> "connection_rules",    fill |-> PyNone],
      [part |-> "format_reminders",    fill |-> PyNone],
      [part |-> "node_types",          fill |-> PyNone],
      [part |-> "operations_catalog",  fill |-> PyNone],
      [part |-> "diagram",             fill |-> diagram_json],
      [part |-> "history",             fill |-> PyStr(history_text)]>>

\* chat.py:523-586: system_instruction, as the sequence of its parts.  A part
\* of fixed text has no fill; the three f-string fields carry their value.
SystemInstruction(diagram_json, history_text) ==
    <<[part |-> "persona",             fill |-> PyNone],
      [part |-> "diagram",             fill |-> diagram_json],
      [part |-> "history",             fill |-> PyStr(history_text)],
      [part |-> "response_format",     fill |-> PyNone],
      [part |-> "grid_spacing",        fill |-> PyNone],
      [part |-> "operations_catalog",  fill |-> PyNone],
      [part |-> "node_types",          fill |-> PyNone],
      [part |-> "hierarchical_layout", fill |-> PyNone],
      [part |-> "connection_rules",    fill |-> PyNone],
      [part |-> "format_reminders",    fill |-> PyNone]>>

\* chat.py:684: prompt = system_instruction + "\nUSER:\n" + req.message
Prompt(system_instruction, message) ==
    system_instruction \o <<[part |-> "user_message", fill |-> PyStr(message)]>>

\* The request as the model call is made; the resolver's locals are not read
\* again and are dropped.
Calling(r) ==
    [r EXCEPT !.provider_calls = @ + 1, !.available_models = <<>>, !.model_name = <<>>,
              !.prompt = Prompt(SystemInstruction(r.diagram_json, r.history_text),
                                r.message)]

\* chat.py:683-686 with the except clause of 718-736:
\* GenerativeModel(model_to_use).generate_content(prompt) raises, or returns
\* a response whose text is response.text
Generate(w) ==
    /\ req[w].pc = "generating"
    /\ \/ \E error_msg \in ProviderErrors :
             req' = [req EXCEPT ![w] =
                        Caught([Calling(@) EXCEPT !.model_call = "raised"], error_msg)]
       \/ \E text \in ReplyTexts \cup {<<>>} :
             req' = [req EXCEPT ![w] = [Calling(@) EXCEPT !.pc = "cleaning",
                                                         !.model_call = "returned",
                                                         !.response_text = text]]
    /\ UNCHANGED <<Env, supabase, projects, chat_messages, dep, stat>>

\* a faulty variant of Replied: an empty reply is answered 502
RepliedBadGateway(r, reply_text) ==
    IF reply_text = <<>>
    THEN Fail(r, 502, "empty_response")
    ELSE [r EXCEPT !.pc = "normalizing", !.reply_text = reply_text]

\* chat.py:738-739: the check of the cleaned reply
Replied(r, reply_text) ==
    IF reply_text = <<>>
    THEN Fail(r, 500, "empty_response")
    ELSE [r EXCEPT !.pc = "normalizing", !.reply_text = reply_text]

\* chat.py:686-717 and 738-739: the clean-up of the reply text and the
\* empty-reply check
CleanResponse(w) ==
    /\ req[w].pc = "cleaning"
    /\ req' = [req EXCEPT ![w] = Replied(@, CleanReply(@.response_text))]
    /\ UNCHANGED <<Env, supabase, projects, chat_messages, dep, stat>>

\* chat.py:741-798 and 827-831: the request once its reply is normalised to
\* n; an exception that is no JSONDecodeError reaches the outer clause
Normalised(r, n) ==
    IF n.raised
    THEN Fail([r EXCEPT !.branch = n.branch], 500, "internal_server_error")
    ELSE [r EXCEPT !.pc = "persisting",
                   !.branch = n.branch,
                   !.assistant_message = n.message,
                   !.operations = n.operations]

\* chat.py:741-798, and 827-831 for an exception that is no JSONDecodeError
NormalizeReply(w) ==
    /\ req[w].pc = "normalizing"
    /\ req' = [req EXCEPT ![w] = Normalised(@, Normalize(@.reply_text))]
    /\ UNCHANGED <<Env, supabase, projects, chat_messages, dep, stat>>

\* a faulty variant of NewRows: the assistant row comes first
NewRowsAssistantFirst(table, r) ==
    LET last == IF table = {} THEN 0
                ELSE CHOOSE n \in {x.created_at : x \in table} :
                         \A x \in table : x.created_at <= n
    IN  {[id |-> last + 1, project_id |-> r.projectId, role |-> RoleAssistant,
          content |-> r.assistant_message, created_at |-> last + 1],
         [id |-> last + 2, project_id |-> r.projectId, role |-> RoleUser,
          content |-> PyStr(r.message), created_at |-> last + 2]}

\* The rows chat.py:802-813 inserts; the store numbers and stamps them.
NewRows(table, r) ==
    LET last == IF table = {} THEN 0
                ELSE CHOOSE n \in {x.created_at : x \in table} :
                         \A x \in table : x.created_at <= n
    IN  {[id |-> last + 1, project_id |-> r.projectId, role |-> RoleUser,
          content |-> PyStr(r.message), created_at |-> last + 1],
         [id |-> last + 2, project_id |-> r.projectId, role |-> RoleAssistant,
          content |-> r.assistant_message, created_at |-> last + 2]}

\* a faulty variant of Persist: the rows are written and the request fails
\* afterwards
PersistThenFail(w) ==
    /\ req[w].pc = "persisting"
    /\ chat_messages' = chat_messages \cup NewRows(chat_messages, req[w])
    /\ \/ req' = [req EXCEPT ![w] = [@ EXCEPT !.pc = "done",
                                              !.store_calls = @ + 1,
                                              !.persisted = TRUE,
                                              !.status = 200]]
       \/ req' = [req EXCEPT ![w] =
                     Fail([@ EXCEPT !.store_calls = @ + 1], 500,
                          "internal_server_error")]
    /\ UNCHANGED <<Env, supabase, projects, dep, stat>>

\* a faulty variant of Persist: a failed insert fails the request
PersistOrFail(w) ==
    /\ req[w].pc = "persisting"
    /\ \/ /\ chat_messages' = chat_messages \cup NewRows(chat_messages, req[w])
          /\ req' = [req EXCEPT ![w] = [@ EXCEPT !.pc = "done",
                                                 !.store_calls = @ + 1,
                                                 !.persisted = TRUE,
                                                 !.status = 200]]
       \/ /\ chat_messages' = chat_messages
          /\ req' = [req EXCEPT ![w] =
                        Fail([@ EXCEPT !.store_calls = @ + 1], 500,
                             "internal_server_error")]
    /\ UNCHANGED <<Env, supabase, projects, dep, stat>>

\* chat.py:800-822: the insert, its except clause, and the return
Persist(w) ==
    /\ req[w].pc = "persisting"
    /\ \E stored \in BOOLEAN :
          /\ chat_messages' = IF stored
                              THEN chat_messages \cup NewRows(chat_messages, req[w])
                              ELSE chat_messages
          /\ req' = [req EXCEPT ![w] =
                        [@ EXCEPT !.pc = "done",
                                  !.store_calls = @ + 1,
                                  !.persisted = stored,
                                  !.status = 200]]
    /\ UNCHANGED <<Env, supabase, projects, dep, stat>>

Next ==
    \E w \in MainWorkers :
        \/ Receive(w)
        \/ Validate(w)
        \/ LoadProject(w)
        \/ LoadHistory(w)
        \/ ListModels(w)
        \/ SelectModel(w)
        \/ Generate(w)
        \/ CleanResponse(w)
        \/ NormalizeReply(w)
        \/ Persist(w)

Spec == Init /\ [][Next]_vars

(***************************************************************************)
(* Two requests in flight: the handler is async and every store and        *)
(* provider call returns control to the server, so the steps of two        *)
(* requests interleave.  The specification follows two requests for        *)
(* project IdA whose store and provider calls succeed.                     *)
(***************************************************************************)

\* The message each worker's request carries.
PairMessage == ("w1" :> MsgHi) @@ ("w2" :> MsgAddDb)

\* The requests PairSpec follows: for project IdA with the worker's message,
\* a found project, one listed model, and the reply ReplyStrict.
InPair(w, r) ==
    /\ r.pc \notin {"failed", "rejected"}
    /\ r.pc # "idle" => (r.projectId = IdA /\ r.message = PairMessage[w])
    /\ r.pc = "resolving" =>
          /\ r.listed
          /\ Len(r.available_models) = 1
          /\ r.available_models[1].full_name = Full_models_gemini_2_5_flash
    /\ r.pc = "cleaning" => r.response_text = ReplyStrict

PairInit ==
    /\ Init
    /\ supabase = "client"
    /\ chat_messages = InitMessages(1)

PairNext ==
    \E w \in Workers :
        \/ Receive(w) /\ InPair(w, req'[w])
        \/ Validate(w) /\ InPair(w, req'[w])
        \/ LoadProject(w) /\ InPair(w, req'[w])
        \/ LoadHistory(w) /\ InPair(w, req'[w])
        \/ ListModels(w) /\ InPair(w, req'[w])
        \/ SelectModel(w) /\ InPair(w, req'[w])
        \/ Generate(w) /\ InPair(w, req'[w])
        \/ CleanResponse(w) /\ InPair(w, req'[w])
        \/ NormalizeReply(w) /\ InPair(w, req'[w])
        \/ Persist(w) /\ InPair(w, req'[w])

PairSpec == PairInit /\ [][PairNext]_vars

(***************************************************************************)
(* The deployment endpoints (routes/deployment.py)                         *)
(***************************************************************************)

\* Most nodes of a stored diagram.
MaxNodes == 3

\* A diagram node as the deployment reads it: what it deploys as, and
\* whether its service carries environment variables.
NodeShapes ==
    {[type |-> "database", variables |-> FALSE],
     [type |-> "service", variables |-> FALSE],
     [type |-> "service", variables |-> TRUE]}

NodeLists == UNION {[1..n -> NodeShapes] : n \in 0..MaxNodes}

WithIds(l) ==
    [k \in DOMAIN l |-> [id |-> k, type |-> l[k].type, variables |-> l[k].variables]]

\* deployment_metadata left on a project row by an earlier deployment.
EarlierMetadata ==
    [railway_project_id   |-> <<"railway-project", 0>>,
     railway_project_name |-> <<"stored-name">>,
     services             |-> <<>>,
     databases            |-> <<>>,
     status               |-> "deployed",
     errors               |-> <<>>]

\* Table projects with the columns the deployment endpoints read: project
\* IdA has the nodes l and was never deployed, project IdB was.
DeployProjects(l) ==
    (IdA :> [diagram_json |-> [nodes |-> WithIds(l)],
             name |-> <<"stored-name">>,
             deployment_metadata |-> PyNone])
    @@ (IdB :> [diagram_json |-> [nodes |-> WithIds(<<[type |-> "service",
                                                      variables |-> FALSE]>>)],
                name |-> <<"stored-name">>,
                deployment_metadata |-> EarlierMetadata])

\* What projects.select(...).eq("id", id).single().execute() may do in the
\* deployment endpoints: raise, or return the row or no data.
DeployLookupOutcomes(rows, id) ==
    {[raised |-> TRUE, error |-> e, data |-> PyNone] : e \in StoreFaults}
    \cup
    (IF ~StoreAcceptsUuid(id)
     THEN {[raised |-> TRUE, error |-> ApiError(TextBadUuid, Pg22P02), data |-> PyNone]}
     ELSE IF id \in DOMAIN rows
     THEN {[raised |-> FALSE, error |-> PyNone, data |-> rows[id]]}
     ELSE {[raised |-> TRUE, error |-> ApiError(TextNoRowsReturned, Pgrst116),
            data |-> PyNone],
           [raised |-> FALSE, error |-> PyNone, data |-> PyNone]})

\* DeploymentMapper.generate_railway_config: one database entry per
\* database node and one service entry per other node, in node order.
DatabaseEntry(n) == [name |-> <<"database", n.id>>, node_id |-> n.id]

ServiceEntry(n) ==
    [name |-> <<"service", n.id>>, node_id |-> n.id,
     environment_variables |-> n.variables, needs_code |-> TRUE]

IsDatabaseNode(n) == n.type = "database"

IsServiceNode(n) == n.type # "database"

GenerateRailwayConfig(nodes, diagram_name) ==
    LET database_nodes == SelectSeq(nodes, IsDatabaseNode)
        service_nodes == SelectSeq(nodes, IsServiceNode)
    IN  [project_name |-> diagram_name,
         databases    |-> [k \in DOMAIN database_nodes |->
                              DatabaseEntry(database_nodes[k])],
         services     |-> [k \in DOMAIN service_nodes |->
                              ServiceEntry(service_nodes[k])]]

\* deployment.py:206-214: an HTTPException raised in the handler reaches the
\* caller as raised.
DeployFail(d, status, detail) ==
    [d EXCEPT !.pc = "failed", !.status = status, !.detail = detail]

\* The request body: projectId, and projectName or none (the token decides
\* only whether the client can be built).
DeployReceive ==
    /\ dep.pc = "idle"
    /\ \E id \in RequestIds, name \in {<<>>, <<"given-name">>} :
          dep' = [IdleDeploy EXCEPT !.pc = "validating",
                                    !.projectId = id,
                                    !.projectName = name]
    /\ UNCHANGED <<Env, supabase, projects, chat_messages, req, stat>>

\* deployment.py:43-58
DeployValidate ==
    /\ dep.pc = "validating"
    /\ dep' = IF ~UuidParses(dep.projectId)
              THEN DeployFail(dep, 400, "invalid_project_id")
              ELSE IF supabase = "none"
              THEN DeployFail(dep, 503, "supabase_not_configured")
              ELSE [dep EXCEPT !.pc = "loading_project"]
    /\ UNCHANGED <<Env, supabase, projects, chat_messages, req, stat>>

\* deployment.py:62-71: the HTTPException for an error of the lookup
DeployLookupFailure(e) ==
    IF \/ Contains(Lower(e.message), NotFoundText)
       \/ Contains(Lower(e.message), NoRowsText)
       \/ Contains(e.message, Pgrst116)
       \/ Contains(e.code, Pgrst116)
    THEN [status |-> 404, detail |-> "project_not_found_save_first"]
    ELSE [status |-> 500, detail |-> "error_loading_project"]

\* deployment.py:60-87
DeployLoadProject ==
    /\ dep.pc = "loading_project"
    /\ \E o \in DeployLookupOutcomes(projects, dep.projectId) :
          dep' =
             IF o.raised
             THEN DeployFail([dep EXCEPT !.lookup = "raised"],
                             DeployLookupFailure(o.error).status,
                             DeployLookupFailure(o.error).detail)
             ELSE IF o.data = PyNone
             THEN DeployFail([dep EXCEPT !.lookup = "no_data"], 404, "project_not_found")
             ELSE IF o.data.diagram_json.nodes = <<>>
             THEN DeployFail([dep EXCEPT !.lookup = "data"], 400, "no_nodes")
             ELSE [dep EXCEPT !.pc = "configuring",
                              !.lookup = "data",
                              !.nodes = o.data.diagram_json.nodes,
                              !.diagram_name = IF dep.projectName # <<>>
                                               THEN dep.projectName
                                               ELSE o.data.name]
    /\ UNCHANGED <<Env, supabase, projects, chat_messages, req, stat>>

\* deployment.py:89-100: build the client, generate the configuration
DeployConfigure ==
    /\ dep.pc = "configuring"
    /\ \E client_ok \in BOOLEAN :
          dep' = IF ~client_ok
                 THEN DeployFail(dep, 400, "railway_client_failed")
                 ELSE [dep EXCEPT !.pc = "creating_project",
                                  !.railway_config =
                                      GenerateRailwayConfig(dep.nodes, dep.diagram_name)]
    /\ UNCHANGED <<Env, supabase, projects, chat_messages, req, stat>>

\* A call made on the cloud client, and whether it raised.
CloudCall(op, name, raised) == [op |-> op, name |-> name, raised |-> raised]

\* Where the handler stands once i entries of the loop at pc are done.
AfterItem(config, pc, i) ==
    IF pc = "databases" /\ i < Len(config.databases) THEN "databases"
    ELSE IF pc = "databases" /\ Len(config.services) > 0 THEN "services"
    ELSE IF pc = "services" /\ i < Len(config.services) THEN "services"
    ELSE "storing"

\* deployment.py:102-121: create_project raises, returns no id, or returns
\* the project; then the three lists start empty.
CreateProject ==
    /\ dep.pc = "creating_project"
    /\ \E outcome \in {"raised", "no_id", "created"} :
          dep' = IF outcome # "created"
                 THEN DeployFail([dep EXCEPT !.calls =
                                     Append(@, CloudCall("create_project",
                                                         dep.railway_config.project_name,
                                                         outcome = "raised"))],
                                 500, "create_project_failed")
                 ELSE [dep EXCEPT !.pc = AfterItem(dep.railway_config, "databases", 0),
                                  !.calls = Append(@, CloudCall("create_project",
                                                               dep.railway_config.project_name,
                                                               FALSE)),
                                  !.railway_project_id = <<"railway-project", 1>>,
                                  !.i = 0,
                                  !.deployed_services = <<>>,
                                  !.deployed_databases = <<>>,
                                  !.errors = <<>>]
    /\ UNCHANGED <<Env, supabase, projects, chat_messages, req, stat>>

\* A loop over the databases that lets the failure of a creation end the
\* deployment.
CreateDatabaseAborting ==
    /\ dep.pc = "databases"
    /\ LET db_config == dep.railway_config.databases[dep.i + 1]
           pc == AfterItem(dep.railway_config, "databases", dep.i + 1)
       IN  \E raised \in BOOLEAN :
              dep' = [dep EXCEPT
                         !.pc = IF raised THEN "failed" ELSE pc,
                         !.status = IF raised THEN 500 ELSE @,
                         !.detail = IF raised THEN "deployment_failed" ELSE @,
                         !.i = IF pc = "databases" THEN dep.i + 1 ELSE 0,
                         !.calls = Append(@, CloudCall("create_database", db_config.name, raised)),
                         !.deployed_databases =
                             IF raised THEN @
                             ELSE Append(@, [node_id |-> db_config.node_id,
                                             railway_id |-> <<"plugin", db_config.node_id>>,
                                             name |-> db_config.name,
                                             type |-> "database"]),
                         !.errors =
                             IF raised
                             THEN Append(@, <<"Failed to create database", db_config.name>>)
                             ELSE @]
    /\ UNCHANGED <<Env, supabase, projects, chat_messages, req, stat>>

\* deployment.py:123-138: one turn of the loop over the databases
CreateDatabase ==
    /\ dep.pc = "databases"
    /\ LET db_config == dep.railway_config.databases[dep.i + 1]
           pc == AfterItem(dep.railway_config, "databases", dep.i + 1)
       IN  \E raised \in BOOLEAN :
              dep' = [dep EXCEPT
                         !.pc = pc,
                         !.i = IF pc = "databases" THEN dep.i + 1 ELSE 0,
                         !.calls = Append(@, CloudCall("create_database", db_config.name, raised)),
                         !.deployed_databases =
                             IF raised THEN @
                             ELSE Append(@, [node_id |-> db_config.node_id,
                                             railway_id |-> <<"plugin", db_config.node_id>>,
                                             name |-> db_config.name,
                                             type |-> "database"]),
                         !.errors =
                             IF raised
                             THEN Append(@, <<"Failed to create database", db_config.name>>)
                             ELSE @]
    /\ UNCHANGED <<Env, supabase, projects, chat_messages, req, stat>>

\* deployment.py:140-170: one turn of the loop over the services;
\* railway_client.py:128-164: set_service_variables returns, never raises.
CreateService ==
    /\ dep.pc = "services"
    /\ LET service_config == dep.railway_config.services[dep.i + 1]
           pc == AfterItem(dep.railway_config, "services", dep.i + 1)
       IN  \E outcome \in {"raised", "no_id", "created"} :
              LET service_id == IF outcome = "created"
                                THEN <<"service", service_config.node_id>>
                                ELSE <<>>
              IN  dep' = [dep EXCEPT
                         !.pc = pc,
                         !.i = IF pc = "services" THEN dep.i + 1 ELSE 0,
                         !.calls =
                             Append(@, CloudCall("create_service", service_config.name,
                                                 outcome = "raised"))
                             \o (IF service_id # <<>> /\ service_config.environment_variables
                                 THEN <<CloudCall("set_service_variables",
                                                  service_config.name, FALSE)>>
                                 ELSE <<>>),
                         !.deployed_services =
                             IF outcome = "raised" THEN @
                             ELSE Append(@, [node_id |-> service_config.node_id,
                                             railway_id |-> service_id,
                                             name |-> service_config.name,
                                             type |-> "service",
                                             needs_code |-> service_config.needs_code]),
                         !.errors =
                             IF outcome = "raised"
                             THEN Append(@, <<"Failed to create service", service_config.name>>)
                             ELSE @]
    /\ UNCHANGED <<Env, supabase, projects, chat_messages, req, stat>>

\* deployment.py:172-182
DeploymentMetadata(d) ==
    [railway_project_id   |-> d.railway_project_id,
     railway_project_name |-> d.railway_config.project_name,
     services             |-> d.deployed_services,
     databases            |-> d.deployed_databases,
     status               |-> IF d.errors = <<>> THEN "deployed" ELSE "partial",
     errors               |-> d.errors]

\* deployment.py:194-204
DeployResponse(d) ==
    [success              |-> TRUE,
     railway_project_id   |-> d.railway_project_id,
     railway_project_name |-> d.railway_config.project_name,
     deployed_services    |-> Len(d.deployed_services),
     deployed_databases   |-> Len(d.deployed_databases),
     services             |-> d.deployed_services,
     databases            |-> d.deployed_databases,
     errors               |-> d.errors]

\* deployment.py:172-204: store the metadata (a failure of the update is
\* only printed) and answer.
StoreMetadata ==
    /\ dep.pc = "storing"
    /\ \E update_ok \in BOOLEAN :
          /\ projects' = IF update_ok
                         THEN [projects EXCEPT ![dep.projectId].deployment_metadata =
                                                   DeploymentMetadata(dep)]
                         ELSE projects
          /\ dep' = [dep EXCEPT !.pc = "done",
                                !.stored = update_ok,
                                !.status = 200,
                                !.response = DeployResponse(dep)]
    /\ UNCHANGED <<Env, supabase, chat_messages, req, stat>>

\* The path parameter of GET /deploy/status/{project_id}.
StatusReceive ==
    /\ stat.pc = "idle"
    /\ \E id \in RequestIds :
          stat' = [IdleStatus EXCEPT !.pc = "checking", !.projectId = id]
    /\ UNCHANGED <<Env, supabase, projects, chat_messages, req, dep>>

\* deployment.py:249-255: what the two except clauses make of an exception
\* raised in the try block; an HTTPException is an Exception.
StatusCaught(s, e) ==
    IF e.cls = "APIError"
    THEN IF Contains(Lower(e.message), NotFoundText)
         THEN [s EXCEPT !.pc = "failed", !.status = 404, !.detail = "project_not_found"]
         ELSE [s EXCEPT !.pc = "failed", !.status = 500, !.detail = "database_error"]
    ELSE [s EXCEPT !.pc = "failed", !.status = 500, !.detail = "error"]

\* deployment.py:217-255
GetDeploymentStatus ==
    /\ stat.pc = "checking"
    /\ \/ /\ ~UuidParses(stat.projectId)
          /\ stat' = [stat EXCEPT !.pc = "failed", !.status = 400,
                                  !.detail = "invalid_project_id", !.raised = 400]
       \/ /\ UuidParses(stat.projectId)
          /\ supabase = "none"
          /\ stat' = [stat EXCEPT !.pc = "failed", !.status = 503,
                                  !.detail = "supabase_not_configured", !.raised = 503]
       \/ /\ UuidParses(stat.projectId)
          /\ supabase # "none"
          /\ \E o \in DeployLookupOutcomes(projects, stat.projectId) :
                stat' =
                   IF o.raised
                   THEN StatusCaught([stat EXCEPT !.lookup = "raised"], o.error)
                   ELSE IF o.data = PyNone
                   THEN StatusCaught([stat EXCEPT !.lookup = "no_data", !.raised = 404],
                                     [cls |-> "HTTPException",
                                      message |-> <<>>, code |-> <<>>])
                   ELSE IF o.data.deployment_metadata = PyNone
                   THEN [stat EXCEPT !.pc = "done", !.lookup = "data", !.status = 200,
                                     !.response = [deployed |-> FALSE]]
                   ELSE [stat EXCEPT !.pc = "done", !.lookup = "data", !.status = 200,
                                     !.response =
                                         [deployed |-> TRUE,
                                          metadata |-> o.data.deployment_metadata]]
    /\ UNCHANGED <<Env, supabase, projects, chat_messages, req, dep>>

\* The service with the deployment endpoints: one chat request up to its
\* validation, or one deployment, or one status request; a status request
\* may also follow a deployment that stored its metadata, for its project.
NoChat == \A w \in Workers : req[w].pc = "idle"

DeployInit ==
    /\ \E raw \in RawEnvs, create_ok \in BOOLEAN :
          /\ Env = LoadEnv(raw)
          /\ supabase = InitSupabase(LoadEnv(raw), create_ok)
    /\ \E l \in NodeLists : projects = DeployProjects(l)
    /\ chat_messages = InitMessages(0)
    /\ req = [w \in Workers |-> IdleRequest]
    /\ dep = IdleDeploy
    /\ stat = IdleStatus

DeployNext ==
    \/ \E w \in MainWorkers : Receive(w) /\ dep.pc = "idle" /\ stat.pc = "idle"
    \/ \E w \in MainWorkers : Validate(w)
    \/ DeployReceive /\ NoChat /\ stat.pc = "idle"
    \/ DeployValidate
    \/ DeployLoadProject
    \/ DeployConfigure
    \/ CreateProject
    \/ CreateDatabase
    \/ CreateService
    \/ StoreMetadata
    \/ /\ StatusReceive
       /\ NoChat
       /\ dep.pc = "idle" \/ (dep.stored /\ stat'.projectId = dep.projectId)
    \/ GetDeploymentStatus

DeploySpec == DeployInit /\ [][DeployNext]_vars

(***************************************************************************)
(* Properties of the chat handler                                          *)
(***************************************************************************)

\* The identifiers a request may carry that uuid.UUID parses.
WellFormedIds == {id \in RequestIds : UuidParses(id)}

\* C1: for every non-empty model reply text, whatever it decodes to, the
\* normalisation stage does not raise: a request that holds a non-empty
\* cleaned reply never fails, it goes on to persisting and ends with status
\* 200.
C1_NormalizationNeverRaises ==
    \A w \in Workers :
        req[w].reply_text # <<>> =>
            /\ req[w].pc \in {"normalizing", "persisting", "done"}
            /\ (req[w].pc = "done" => req[w].status = 200)

\* C2: in every returned pair, message is a non-empty string.
C2_MessageIsNonEmptyString ==
    \A w \in Workers :
        req[w].pc = "done" =>
            /\ req[w].assistant_message.t = "str"
            /\ req[w].assistant_message.v # <<>>

\* C3: in every pair the handler holds after normalisation and returns,
\* operations is a list, whichever branch of the fallback chain set it.
C3_OperationsIsList ==
    \A w \in Workers :
        req[w].pc \in {"persisting", "done"} =>
            /\ req[w].branch \in {"strict", "regex", "legacy_array", "legacy_other",
                                  "apology"}
            /\ req[w].operations.t = "list"

\* A request returned a pair whose operations the model had sent as a JSON
\* object, not a list.
C3_Witness ==
    \E w \in Workers :
        /\ req[w].pc = "done"
        /\ req[w].response_text = ReplyOpsObject
        /\ req[w].branch = "strict"
        /\ req[w].operations = PyList(<<>>)

\* C4: when the model reply text is a bare JSON array of operation objects,
\* the returned message is exactly the fixed sentence of the legacy branch
\* and the returned operations are the parsed array.
C4_LegacyArrayFallback ==
    \A w \in Workers :
        (/\ req[w].response_text \in {ReplyLegacyArray, ReplyLegacyTwo}
         /\ req[w].pc \notin {"cleaning", "normalizing"}) =>
            /\ req[w].pc \in {"persisting", "done"}
            /\ req[w].assistant_message = PyStr(MsgUpdated)
            /\ req[w].operations = JsonLoads(req[w].response_text).val

\* C5: a request whose projectId does not parse as a UUID ends in 400 before
\* any store query and before any model-provider call.
C5_InvalidUuidRejectedFirst ==
    \A w \in Workers :
        (/\ req[w].pc \notin {"idle", "validating", "rejected"}
         /\ req[w].projectId \notin WellFormedIds) =>
            /\ req[w].pc = "failed"
            /\ req[w].status = 400
            /\ req[w].store_calls = 0
            /\ req[w].provider_calls = 0

\* A request with the identifier not-a-uuid was rejected with 400 and no
\* call was made.
C5_Witness ==
    \E w \in Workers :
        /\ req[w].pc = "failed"
        /\ req[w].projectId = IdNotUuid
        /\ req[w].status = 400
        /\ req[w].store_calls = 0
        /\ req[w].provider_calls = 0

\* C6: for a valid UUID projectId, a configured store whose lookup raises a
\* no-rows or not-found error, or returns no data, gives 404; a store client
\* that is not configured gives 503.
C6_AbsentProjectOrNoStore ==
    \A w \in Workers :
        /\ (/\ req[w].pc \notin {"idle", "validating", "rejected"}
            /\ req[w].projectId \in WellFormedIds
            /\ supabase = "none") =>
               (req[w].pc = "failed" /\ req[w].status = 503)
        /\ req[w].lookup = "no_data" =>
               (req[w].pc = "failed" /\ req[w].status = 404)
        /\ (/\ req[w].lookup = "raised"
            /\ req[w].lookup_error.cls = "APIError"
            /\ req[w].lookup_error.code # Pg22P02
            /\ \/ req[w].lookup_error.code = Pgrst116
               \/ Contains(Lower(req[w].lookup_error.message), NotFoundText)
               \/ Contains(Lower(req[w].lookup_error.message), NoRowsText)) =>
               (req[w].pc = "failed" /\ req[w].status = 404)

\* The lookup of a project that is not stored raised the store's no-rows
\* error and the request ended in 404.
C6_Witness ==
    \E w \in Workers :
        /\ req[w].projectId = IdMissing
        /\ supabase = "client"
        /\ req[w].lookup = "raised"
        /\ req[w].lookup_error.code = Pgrst116
        /\ req[w].pc = "failed"
        /\ req[w].status = 404

\* C7: the identifier check and both configuration checks come before any
\* store query or provider call, and the failure returned is that of the
\* first unmet precondition in the order: identifier well formed, store
\* configured, provider key configured, project exists.
C7_FirstUnmetPrecondition ==
    \A w \in Workers :
        /\ req[w].pc \notin {"idle", "validating", "rejected"} =>
              /\ req[w].projectId \notin WellFormedIds =>
                    (/\ req[w].pc = "failed"
                     /\ req[w].status = 400
                     /\ req[w].detail = "invalid_project_id")
              /\ (req[w].projectId \in WellFormedIds /\ supabase = "none") =>
                    (/\ req[w].pc = "failed"
                     /\ req[w].status = 503
                     /\ req[w].detail = "supabase_not_configured")
              /\ (/\ req[w].projectId \in WellFormedIds
                  /\ supabase # "none"
                  /\ Env.GEMINI_API_KEY = <<>>) =>
                    (/\ req[w].pc = "failed"
                     /\ req[w].status = 503
                     /\ req[w].detail = "gemini_not_configured")
        /\ (req[w].store_calls > 0 \/ req[w].provider_calls > 0) =>
              /\ req[w].projectId \in WellFormedIds
              /\ supabase # "none"
              /\ Env.GEMINI_API_KEY # <<>>
        /\ (req[w].store_calls > 1 \/ req[w].provider_calls > 0) =>
              req[w].lookup = "data"
        /\ req[w].lookup \in {"raised", "no_data"} =>
              /\ req[w].pc = "failed"
              /\ req[w].store_calls = 1
              /\ req[w].provider_calls = 0

\* A request with a well-formed identifier was refused with 503 because the
\* store client is not configured, and no call was made.
C7_Witness ==
    \E w \in Workers :
        /\ req[w].projectId = IdA
        /\ supabase = "none"
        /\ req[w].pc = "failed"
        /\ req[w].status = 503
        /\ req[w].detail = "supabase_not_configured"
        /\ req[w].store_calls = 0
        /\ req[w].provider_calls = 0

\* C8: when some listed model matches a preferred name and carries neither
\* the -exp nor the -preview marker, the resolver selects the first such
\* match, in list order, of the earliest preferred name that has one.
C8_ResolverPriority ==
    \A w \in Workers :
        LET am == req[w].available_models
            Eligible(i, p) ==
                /\ Contains(am[i].name, preferred_models[p])
                /\ ~Contains(Lower(am[i].name), ExpMarker)
                /\ ~Contains(Lower(am[i].name), PreviewMarker)
            served == {p \in 1..Len(preferred_models) :
                          \E i \in 1..Len(am) : Eligible(i, p)}
        IN  (req[w].pc = "generating" /\ served # {}) =>
                /\ req[w].how = "preferred"
                /\ \E p \in served :
                      /\ \A q \in served : p <= q
                      /\ \E i \in 1..Len(am) :
                            /\ Eligible(i, p)
                            /\ \A j \in 1..(i - 1) : ~Eligible(j, p)
                            /\ req[w].model_name = am[i].name

\* The live list gemini-2.0-flash-exp, gemini-2.5-flash, gemini-1.5-pro was
\* resolved to gemini-2.5-flash.
C8_Witness ==
    \E w \in Workers :
        /\ req[w].pc = "generating"
        /\ Len(req[w].available_models) = 3
        /\ req[w].available_models[1].full_name = Full_models_gemini_2_0_flash_exp
        /\ req[w].available_models[2].full_name = Full_models_gemini_2_5_flash
        /\ req[w].available_models[3].full_name = Full_models_gemini_1_5_pro
        /\ req[w].model_name = preferred_models[1]

\* C9: the history the query returns is the up-to-20 most recent messages of
\* the project, oldest first.
C9_HistoryIsMostRecent ==
    \A w \in Workers :
        LET mine   == {r \in chat_messages : r.project_id = req[w].projectId}
            recent == {r \in mine :
                          Cardinality({o \in mine : o.created_at > r.created_at})
                              < HistoryLimit}
        IN  (req[w].history_load = "rows" /\ req[w].pc # "done") =>
                req[w].history_rows = SelectColumns(OrderByCreatedAt(recent))

\* C10: a failure while loading the history is swallowed: the history is
\* empty, the prompt holds the placeholder sentence, and the request goes on
\* to the provider; it fails, if at all, only after a provider call.
C10_HistoryFailureSwallowed ==
    \A w \in Workers :
        req[w].history_load = "error" =>
            /\ req[w].history_rows = <<>>
            /\ req[w].history_text = NoPreviousMessages
            /\ req[w].pc \in {"listing_models", "resolving", "generating", "cleaning",
                              "normalizing", "persisting", "done", "failed"}
            /\ (req[w].pc = "failed" => req[w].provider_calls > 0)

\* The history query of a request raised, and the request was answered.
C10_Witness ==
    \E w \in Workers :
        /\ req[w].history_load = "error"
        /\ req[w].history_text = NoPreviousMessages
        /\ req[w].pc = "done"
        /\ req[w].status = 200

\* C11: a failure of the history insert is swallowed: the step after
\* normalisation ends the request with status 200 and the very pair that
\* normalisation produced, whether or not the rows were stored.
C11_PersistFailureSwallowed ==
    [][\A w \in Workers :
          req[w].pc = "persisting" =>
              /\ req'[w].pc \in {"persisting", "done"}
              /\ req'[w].pc = "done" =>
                    /\ req'[w].status = 200
                    /\ req'[w].assistant_message = req[w].assistant_message
                    /\ req'[w].operations = req[w].operations]_vars

\* A request was answered with status 200 although its rows were not stored.
C11_Witness ==
    \E w \in Workers :
        /\ req[w].pc = "done"
        /\ ~req[w].persisted
        /\ req[w].status = 200
        /\ req[w].assistant_message = PyStr(<<"x">>)

\* The provider errors whose message holds 429, quota or rate limit.
RateLimitErrors ==
    {e \in ProviderErrors : \/ Contains(e, <<"4", "2", "9">>)
                            \/ Contains(Lower(e), <<"q", "u", "o", "t", "a">>)
                            \/ Contains(Lower(e), <<"r", "a", "t", "e", " ", "l", "i",
                                                    "m", "i", "t">>)}

\* The response texts that are empty once stripped.
BlankReplies == {text \in ReplyTexts \cup {<<>>} : Strip(text) = <<>>}

\* C12: a provider error whose message holds 429, quota or rate limit ends
\* the request in 429, every other provider error in 500, and a response
\* text that is empty after stripping in 500.
C12_ProviderFailureMapping ==
    \A w \in Workers :
        /\ req[w].model_call = "raised" =>
              /\ req[w].pc = "failed"
              /\ req[w].status = IF req[w].error_msg \in RateLimitErrors
                                 THEN 429 ELSE 500
        /\ (/\ req[w].model_call = "returned"
            /\ req[w].pc # "cleaning"
            /\ req[w].response_text \in BlankReplies) =>
              (req[w].pc = "failed" /\ req[w].status = 500)

\* The provider answered 429 Too Many Requests and the request ended in 429.
C12_Witness ==
    \E w \in Workers :
        /\ req[w].model_call = "raised"
        /\ req[w].error_msg = ProvErrTooMany
        /\ req[w].pc = "failed"
        /\ req[w].status = 429

\* C13: when no strategy of the resolver yields a model, the request ends
\* in a no-usable-model failure with status 503.
C13_NoUsableModelIs503 ==
    \A w \in Workers :
        req[w].how = "none" => (req[w].pc = "failed" /\ req[w].status = 503)

\* The kind of the taxonomy a failure detail belongs to.
KindOfDetail(detail) ==
    CASE detail \in {"invalid_project_id", "invalid_project_id_store"} -> "bad_request"
      [] detail \in {"project_not_found", "project_not_in_database"} -> "not_found"
      [] detail \in {"supabase_not_configured", "gemini_not_configured"} ->
             "service_unavailable"
      [] detail \in {"rate_limit_exceeded", "free_tier_quota_exceeded"} -> "rate_limited"
      [] detail = "body_not_valid" -> "unprocessable"
      [] OTHER -> "internal"

\* The one status of each kind.
StatusOfKind(kind) ==
    CASE kind = "bad_request" -> 400
      [] kind = "not_found" -> 404
      [] kind = "service_unavailable" -> 503
      [] kind = "rate_limited" -> 429
      [] kind = "unprocessable" -> 422
      [] OTHER -> 500

\* C14 as stated: every request that ends in failure carries a status of
\* {400, 404, 429, 500, 503}, and every other finished request carries 200.
C14_StatusesAsStated ==
    \A w \in Workers :
        /\ req[w].pc \in {"failed", "rejected"} =>
              req[w].status \in {400, 404, 429, 500, 503}
        /\ req[w].pc = "done" => req[w].status = 200

\* C14, amended: a body that is no ChatRequest is answered 422 before the
\* handler runs; every failure of the handler carries the one status of its
\* kind, drawn from {400, 404, 429, 500, 503}; a request that does not fail
\* carries 200 with the message and the operations list normalisation produced.
C14_StatusPerKind ==
    \A w \in Workers :
        /\ req[w].pc = "rejected" => req[w].status = 422
        /\ req[w].pc = "failed" =>
              /\ req[w].status \in {400, 404, 429, 500, 503}
              /\ req[w].status = StatusOfKind(KindOfDetail(req[w].detail))
        /\ req[w].pc = "done" =>
              /\ req[w].status = 200
              /\ req[w].branch # ""
              /\ IsList(req[w].operations)

\* A body without its fields was answered 422.
C14_Witness ==
    \E w \in Workers :
        /\ req[w].pc = "rejected"
        /\ req[w].status = 422
        /\ req[w].store_calls = 0

\* C15 as stated: whatever the class of the error the lookup raises, a
\* no rows / not found error gives 404, a malformed identifier error 400,
\* and any other error 500.
C15_LookupMappingAsStated ==
    \A w \in Workers :
        req[w].lookup = "raised" =>
            /\ req[w].pc = "failed"
            /\ req[w].status =
                  IF \/ Contains(Lower(req[w].lookup_error.message), UuidSyntaxText)
                     \/ req[w].lookup_error.code = Pg22P02
                  THEN 400
                  ELSE IF \/ Contains(Lower(req[w].lookup_error.message), NotFoundText)
                          \/ Contains(Lower(req[w].lookup_error.message), NoRowsText)
                          \/ Contains(req[w].lookup_error.code, Pgrst116)
                  THEN 404
                  ELSE 500

\* C15, amended: an APIError of the lookup gives 400 for invalid uuid syntax
\* or code 22P02, else 404 for not found / no rows / PGRST116, else 500; an
\* exception of any other class gives 400 for invalid uuid syntax and 500
\* otherwise, also when its text says not found.
C15_LookupMappingByClass ==
    \A w \in Workers :
        req[w].lookup = "raised" =>
            /\ req[w].pc = "failed"
            /\ req[w].status =
                  IF Contains(Lower(req[w].lookup_error.message), UuidSyntaxText)
                  THEN 400
                  ELSE IF req[w].lookup_error.cls # "APIError"
                  THEN 500
                  ELSE IF req[w].lookup_error.code = Pg22P02
                  THEN 400
                  ELSE IF \/ Contains(Lower(req[w].lookup_error.message), NotFoundText)
                          \/ Contains(Lower(req[w].lookup_error.message), NoRowsText)
                          \/ Contains(req[w].lookup_error.code, Pgrst116)
                  THEN 404
                  ELSE 500

\* The lookup raised an exception that is no APIError and whose text says
\* not found, and the request ended in 500.
C15_Witness ==
    \E w \in Workers :
        /\ req[w].lookup = "raised"
        /\ req[w].lookup_error = OtherError(TextGatewayNotFound)
        /\ req[w].pc = "failed"
        /\ req[w].status = 500

\* '{''message'':''use ''' ok''}', the object inside ReplyFenceInString
ReplyFenceInside ==
    <<"{", "\"", "m", "e", "s", "s", "a", "g", "e", "\"", ":", "\"", "u",
      "s", "e", " ", BQ, BQ, BQ, " ", "o", "k", "\"", "}">>

\* J wrapped in a fenced block tagged json
JsonFenced(J) == Fence \o <<"j", "s", "o", "n", "\n">> \o J \o <<"\n">> \o Fence

\* J wrapped in a fenced block without a tag
PlainFenced(J) == Fence \o <<"\n">> \o J \o <<"\n">> \o Fence

\* The JSON object texts whose fenced forms are among the response texts.
ObjectTexts == {ReplyStrict, ReplyFenceInside}

\* What normalisation gives for each object text sent bare.
BareResult == [J \in ObjectTexts |-> Normalize(CleanReply(J))]

\* C16: a reply that is a JSON object text J inside a fenced block, with or
\* without the json tag, is normalised to the same message and operations
\* as J sent bare.
C16_FencedSameAsBare ==
    \A w \in Workers : \A J \in ObjectTexts :
        (/\ req[w].response_text \in {JsonFenced(J), PlainFenced(J)}
         /\ req[w].pc \in {"persisting", "done", "failed"}) =>
            /\ req[w].pc # "failed"
            /\ req[w].assistant_message = BareResult[J].message
            /\ req[w].operations = BareResult[J].operations

\* The text between the first and the last brace of s when s holds both, the
\* last after the first, and as many opening as closing braces lie between
\* them; s itself otherwise.
BalancedCandidate(s) ==
    LET opening == {i \in 1..Len(s) : s[i] = "{"}
        closing == {i \in 1..Len(s) : s[i] = "}"}
    IN  IF opening = {} \/ closing = {}
        THEN s
        ELSE LET first == CHOOSE i \in opening : \A j \in opening : i <= j
                 last  == CHOOSE i \in closing : \A j \in closing : j <= i
             IN  IF /\ first < last
                    /\ Cardinality({i \in opening : first <= i /\ i <= last})
                           = Cardinality({i \in closing : first <= i /\ i <= last})
                 THEN SubSeq(s, first, last)
                 ELSE s

\* The reply text expected for each response text.
ExpectedReply ==
    [text \in ReplyTexts |-> BalancedCandidate(StripCodeBlock(Strip(text)))]

\* C17: the reply text handed to normalisation is the text between the first
\* and the last brace of the fence-stripped reply when it holds as many
\* opening as closing braces, and the fence-stripped reply itself otherwise;
\* for one object inside brace-free prose it is exactly the object.
C17_BalanceHeuristic ==
    \A w \in Workers :
        /\ req[w].pc \in {"normalizing", "persisting", "done"} =>
              req[w].reply_text = ExpectedReply[req[w].response_text]
        /\ (/\ req[w].pc \in {"normalizing", "persisting", "done"}
            /\ req[w].response_text = ReplyInProse) =>
              req[w].reply_text = ReplyStrict
        /\ (/\ req[w].pc \in {"normalizing", "persisting", "done"}
            /\ req[w].response_text = ReplyUnbalanced) =>
              req[w].reply_text = ReplyUnbalanced

\* The object inside brace-free prose was cut out.
C17_Witness ==
    \E w \in Workers :
        /\ req[w].pc = "normalizing"
        /\ req[w].response_text = ReplyInProse
        /\ req[w].reply_text = ReplyStrict

\* str(e) of the JSONDecodeError json.loads raises on ReplyProse
ProseDecodeError ==
    <<"E", "x", "p", "e", "c", "t", "i", "n", "g", " ", "v", "a", "l", "u", "e",
      ":", " ", "l", "i", "n", "e", " ", "1", " ", "c", "o", "l", "u", "m", "n",
      " ", "1", " ", "(", "c", "h", "a", "r", " ", "0", ")">>

\* C18: a reply from which no stage recovers a result is answered 200 with
\* an empty operations list and the fixed apology around an excerpt of the
\* decode error of at most 100 characters; "not json at all" is such a reply.
C18_ApologyFallback ==
    \A w \in Workers :
        /\ req[w].branch = "apology" =>
              /\ req[w].pc \in {"persisting", "done"}
              /\ req[w].pc = "done" => req[w].status = 200
              /\ req[w].operations = PyList(<<>>)
              /\ req[w].assistant_message.t = "str"
              /\ \E n \in 0..ErrorPreviewLen :
                    /\ Len(req[w].assistant_message.v)
                           = Len(MsgApologyHead) + n + Len(MsgApologyTail)
                    /\ SubSeq(req[w].assistant_message.v, 1, Len(MsgApologyHead))
                           = MsgApologyHead
                    /\ SubSeq(req[w].assistant_message.v,
                              Len(MsgApologyHead) + n + 1,
                              Len(req[w].assistant_message.v)) = MsgApologyTail
        /\ (/\ req[w].response_text = ReplyProse
            /\ req[w].pc \in {"persisting", "done", "failed"}) =>
              /\ req[w].branch = "apology"
              /\ req[w].assistant_message =
                    PyStr(MsgApologyHead \o ProseDecodeError \o MsgApologyTail)

\* The reply "not json at all" was answered 200 with the apology.
C18_Witness ==
    \E w \in Workers :
        /\ req[w].pc = "done"
        /\ req[w].status = 200
        /\ req[w].response_text = ReplyProse
        /\ req[w].branch = "apology"
        /\ req[w].operations = PyList(<<>>)

\* The position of the part named name in prompt, 0 when it is not there.
PartAt(prompt, name) ==
    IF \E i \in 1..Len(prompt) : prompt[i].part = name
    THEN CHOOSE i \in 1..Len(prompt) : prompt[i].part = name
    ELSE 0

\* C19 as stated: the prompt holds, in this order, the persona, the response
\* format, the layout rules, the node types, the operations, the diagram,
\* the history and last the user message.
C19_PromptOrderAsStated ==
    \A w \in Workers :
        req[w].prompt # <<>> =>
            /\ PartAt(req[w].prompt, "persona") = 1
            /\ PartAt(req[w].prompt, "persona")
                   < PartAt(req[w].prompt, "response_format")
            /\ PartAt(req[w].prompt, "response_format")
                   < PartAt(req[w].prompt, "grid_spacing")
            /\ PartAt(req[w].prompt, "response_format")
                   < PartAt(req[w].prompt, "hierarchical_layout")
            /\ PartAt(req[w].prompt, "grid_spacing")
                   < PartAt(req[w].prompt, "node_types")
            /\ PartAt(req[w].prompt, "hierarchical_layout")
                   < PartAt(req[w].prompt, "node_types")
            /\ PartAt(req[w].prompt, "node_types")
                   < PartAt(req[w].prompt, "operations_catalog")
            /\ PartAt(req[w].prompt, "operations_catalog")
                   < PartAt(req[w].prompt, "diagram")
            /\ PartAt(req[w].prompt, "diagram") < PartAt(req[w].prompt, "history")
            /\ PartAt(req[w].prompt, "history")
                   < PartAt(req[w].prompt, "user_message")
            /\ PartAt(req[w].prompt, "user_message") = Len(req[w].prompt)

\* C19, amended: the prompt holds, in this order, the persona, the diagram
\* as text, the history text, the response format, the grid spacing rules,
\* the operations, the node types, the hierarchical layout rules, the
\* connection rules, the closing reminders and last the user message; the
\* three fields are filled with the project's diagram, the history text of
\* the request and the message of the request.
C19_PromptOrder ==
    \A w \in Workers :
        req[w].prompt # <<>> =>
            /\ [i \in 1..Len(req[w].prompt) |-> req[w].prompt[i].part]
                   = <<"persona", "diagram", "history", "response_format",
                       "grid_spacing", "operations_catalog", "node_types",
                       "hierarchical_layout", "connection_rules",
                       "format_reminders", "user_message">>
            /\ req[w].prompt[2].fill = req[w].diagram_json
            /\ req[w].prompt[3].fill = PyStr(req[w].history_text)
            /\ req[w].history_text # <<>>
            /\ req[w].prompt[11].fill = PyStr(req[w].message)
            /\ \A i \in 1..11 : i \notin {2, 3, 11} => req[w].prompt[i].fill = PyNone

\* A prompt was sent for a request without history: the placeholder stands
\* in the history part and the message comes last.
C19_Witness ==
    \E w \in Workers :
        /\ req[w].model_call = "returned"
        /\ req[w].history_rows = <<>>
        /\ req[w].prompt[3].fill = PyStr(NoPreviousMessages)
        /\ req[w].prompt[Len(req[w].prompt)].fill = PyStr(req[w].message)

\* C20: no step updates or removes a chat_messages row; the only step that
\* adds rows is a persist step that succeeds, and it adds exactly two rows
\* of the request's project, later than every row there was: first the user
\* row with the request message, then the assistant row with the message
\* that is returned.
C20_AppendOnlyPairs ==
    [][/\ chat_messages \subseteq chat_messages'
       /\ \A w \in Workers :
             IF req[w].pc = "persisting" /\ req'[w].pc = "done" /\ req'[w].persisted
             THEN \E u, a \in chat_messages' \ chat_messages :
                     /\ chat_messages' \ chat_messages = {u, a}
                     /\ u.project_id = req[w].projectId
                     /\ a.project_id = req[w].projectId
                     /\ u.role = RoleUser
                     /\ u.content = PyStr(req[w].message)
                     /\ a.role = RoleAssistant
                     /\ a.content = req'[w].assistant_message
                     /\ u.created_at < a.created_at
                     /\ \A x \in chat_messages : x.created_at < u.created_at
             ELSE (\A v \in Workers \ {w} :
                      ~(req[v].pc = "persisting" /\ req'[v].pc = "done"
                          /\ req'[v].persisted))
                  => chat_messages' = chat_messages]_vars

\* An exchange was stored: the request is done and its two rows are there.
C20_Witness ==
    \E w \in Workers :
        /\ req[w].pc = "done"
        /\ req[w].persisted
        /\ \E u, a \in chat_messages :
              /\ u.project_id = req[w].projectId
              /\ u.role = RoleUser
              /\ u.content = PyStr(req[w].message)
              /\ a.project_id = req[w].projectId
              /\ a.role = RoleAssistant
              /\ a.content = req[w].assistant_message
              /\ a.created_at = u.created_at + 1

\* C21: an exception that is no HTTP error ends the request in 500 with the
\* detail of the outer clause, and an HTTP error raised inside the handler
\* reaches the caller with the status it was raised with.
C21_RaisedStatusReachesCaller ==
    \A w \in Workers :
        req[w].pc = "failed" =>
            /\ req[w].raised # 0
            /\ req[w].status = req[w].raised
            /\ (req[w].model_call = "returned" /\ req[w].reply_text # <<>>) =>
                  (req[w].status = 500 /\ req[w].detail = "internal_server_error")

\* The display names of the catalog that carry neither marker.
FreeTierNames ==
    {DisplayName(m.name) : m \in {c \in Catalog : IsFreeTier(DisplayName(c.name))}}

\* C22 as stated: direct construction is attempted exactly when the live
\* list could not be obtained.
C22_DirectOnlyWhenUnlisted ==
    \A w \in Workers :
        req[w].how # "" => (req[w].how \in {"direct", "none"} <=> ~req[w].listed)

\* C22, amended: direct construction is attempted exactly when no name was
\* selected from available_models, that is when it holds no name without
\* marker, whether the listing failed, gave nothing usable or only rejected
\* names; a name selected otherwise is the name of a listed model.
C22_DirectWhenNothingSelected ==
    \A w \in Workers :
        (req[w].pc = "generating" \/ req[w].how = "none") =>
            /\ req[w].how \in {"direct", "none"} <=>
                  \A i \in 1..Len(req[w].available_models) :
                      req[w].available_models[i].name \notin FreeTierNames
            /\ req[w].how \in {"preferred", "first_free_tier"} =>
                  \E i \in 1..Len(req[w].available_models) :
                      /\ req[w].available_models[i].name = req[w].model_name
                      /\ req[w].model_name \in FreeTierNames
            /\ req[w].how = "direct" =>
                  \E p \in 1..Len(preferred_models) :
                      preferred_models[p] = req[w].model_name

\* The list was obtained, held only rejected names, and a model was built
\* directly from a preferred name.
C22_Witness ==
    \E w \in Workers :
        /\ req[w].pc = "generating"
        /\ req[w].listed
        /\ req[w].available_models # <<>>
        /\ req[w].how = "direct"

\* C23: when no preferred name has a match without marker among the listed
\* models that advertise generateContent, the resolver selects the first of
\* them, in list order, whose name holds neither -exp nor -preview; a name
\* holding either marker is never selected from the list.
C23_FirstUnmarkedFallback ==
    \A w \in Workers :
        LET am == req[w].available_models
            Marked(i) ==
                \/ Contains(Lower(am[i].name), ExpMarker)
                \/ Contains(Lower(am[i].name), PreviewMarker)
            unmarked == {i \in 1..Len(am) : ~Marked(i)}
            served == {p \in 1..Len(preferred_models) :
                          \E i \in unmarked : Contains(am[i].name, preferred_models[p])}
        IN  (req[w].pc = "generating" \/ req[w].how = "none") =>
                /\ \A i \in 1..Len(am) :
                      \E c \in Catalog : /\ c.name = am[i].full_name
                                         /\ "generateContent" \in c.methods
                /\ (served = {} /\ unmarked # {}) =>
                      /\ req[w].how = "first_free_tier"
                      /\ \E i \in unmarked :
                            /\ \A j \in unmarked : i <= j
                            /\ req[w].model_name = am[i].name
                /\ req[w].how \in {"preferred", "first_free_tier"} =>
                      \E i \in unmarked : req[w].model_name = am[i].name

\* No preferred name matched, the first listed model carried a marker, and
\* the first listed model without marker was selected.
C23_Witness ==
    \E w \in Workers :
        /\ req[w].pc = "generating"
        /\ req[w].how = "first_free_tier"
        /\ Len(req[w].available_models) >= 2
        /\ req[w].available_models[1].name \notin FreeTierNames
        /\ req[w].model_name \in FreeTierNames

\* The reply texts normalisation is handed.
CleanedReplies == {ExpectedReply[text] : text \in ReplyTexts} \ {<<>>}

\* json.loads of each of them
StrictDecoded == [s \in CleanedReplies |-> JsonLoads(s)]

\* C24: when the strict decode of the reply text succeeds, the message is
\* the decoded message value, or the generic acknowledgement when there is
\* no such key, and operations is the decoded operations value when that is
\* a list and the empty list otherwise.
C24_StrictDecodeResult ==
    \A w \in Workers :
        (/\ req[w].pc \in {"persisting", "done", "failed"}
         /\ req[w].model_call = "returned"
         /\ req[w].reply_text # <<>>
         /\ StrictDecoded[req[w].reply_text].ok) =>
            LET val == StrictDecoded[req[w].reply_text].val
                Has(key) == val.t = "dict" /\ DictHas(val, key)
            IN  /\ req[w].pc # "failed"
                /\ req[w].assistant_message =
                      IF Has(KeyMessage) THEN DictGet(val, KeyMessage, PyNone)
                      ELSE PyStr(MsgProcessed)
                /\ req[w].operations =
                      IF Has(KeyOperations) /\ IsList(DictGet(val, KeyOperations, PyNone))
                      THEN DictGet(val, KeyOperations, PyNone)
                      ELSE PyList(<<>>)

\* For each reply text: the brace-balanced substrings by decreasing length
\* and the index of the first that decodes to an object holding message or
\* operations, 0 when there is none.
RegexAccepted ==
    [s \in CleanedReplies |->
        LET cands == SortByLenDesc(FindAllJson(s, 1, <<>>), <<>>)
            good  == {i \in 1..Len(cands) : Accepts(JsonLoads(cands[i]))}
        IN  [cands |-> cands,
             pick  |-> IF good = {} THEN 0
                       ELSE CHOOSE i \in good : \A j \in good : i <= j]]

\* C25: when the strict decode fails, the result is read from the first of
\* the brace-balanced substrings, by decreasing length, that decodes to an
\* object holding message or operations, and the later stages run only when
\* there is no such substring.
C25_FirstAcceptedCandidate ==
    \A w \in Workers :
        (/\ req[w].pc \in {"persisting", "done", "failed"}
         /\ req[w].model_call = "returned"
         /\ req[w].reply_text # <<>>
         /\ ~StrictDecoded[req[w].reply_text].ok) =>
            LET cands == RegexAccepted[req[w].reply_text].cands
                pick  == RegexAccepted[req[w].reply_text].pick
            IN  /\ req[w].pc # "failed"
                /\ \A i, j \in 1..Len(cands) : i < j => Len(cands[i]) >= Len(cands[j])
                /\ IF pick # 0
                   THEN /\ req[w].branch = "regex"
                        /\ req[w].assistant_message =
                              DictGet(JsonLoads(cands[pick]).val, KeyMessage,
                                      PyStr(MsgProcessed))
                        /\ req[w].operations =
                              CoerceOperations(DictGet(JsonLoads(cands[pick]).val,
                                                       KeyOperations, PyList(<<>>)))
                   ELSE req[w].branch \in {"legacy_array", "legacy_other", "apology"}

\* C26: within a request the project read comes before the history read,
\* that before the model call, and that before the history write; the write
\* is made only once a non-empty reply has been normalised, and a step that
\* fails a request, or any step of a failed request, writes nothing.
C26_StepsInOrder ==
    [][\A w \in Workers :
          /\ req'[w].history_load # "none" => req'[w].lookup = "data"
          /\ req'[w].model_call # "none" => req'[w].history_load # "none"
          /\ req'[w].persisted =>
                /\ req'[w].model_call = "returned"
                /\ req'[w].reply_text # <<>>
                /\ req'[w].branch # ""
          /\ (req[w].lookup = "none" /\ req'[w].lookup # "none") =>
                (req[w].history_load = "none" /\ req[w].model_call = "none")
          /\ (req[w].history_load = "none" /\ req'[w].history_load # "none") =>
                (req[w].lookup = "data" /\ req[w].model_call = "none")
          /\ (req[w].model_call = "none" /\ req'[w].model_call # "none") =>
                (req[w].history_load # "none" /\ ~req[w].persisted)
          /\ req'[w].store_calls > req[w].store_calls =>
                \/ req[w].pc \in {"loading_project", "loading_history"}
                \/ /\ req[w].pc = "persisting"
                   /\ req[w].model_call = "returned"
                   /\ req[w].reply_text # <<>>
                   /\ req[w].branch # ""
          /\ (req[w].pc = "failed" \/ req'[w].pc = "failed") =>
                /\ chat_messages' = chat_messages
                /\ projects' = projects
                /\ ~req'[w].persisted]_vars

\* A request went through the project read, the history read, the model
\* call and the history write, with three store calls in all.
C26_Witness ==
    \E w \in Workers :
        /\ req[w].pc = "done"
        /\ req[w].lookup = "data"
        /\ req[w].history_load = "rows"
        /\ req[w].model_call = "returned"
        /\ req[w].persisted
        /\ req[w].store_calls = 3

\* The rows of the exchange of worker w's request are in the store.
ExchangeStored(w) ==
    \E u, a \in chat_messages :
        /\ u.project_id = req[w].projectId
        /\ u.role = RoleUser
        /\ u.content = PyStr(req[w].message)
        /\ a.project_id = req[w].projectId
        /\ a.role = RoleAssistant
        /\ a.content = req[w].assistant_message
        /\ a.created_at = u.created_at + 1

\* C27: two requests for the same project are not serialized: a request
\* that is about to read the history, or to write its exchange, can do so
\* whatever step the other request is at, and the exchange of every request
\* that stored its rows is in the history.
C27_NotSerialized ==
    \A w \in Workers :
        /\ req[w].pc = "loading_history" => ENABLED LoadHistory(w)
        /\ req[w].pc = "persisting" => ENABLED Persist(w)
        /\ (req[w].pc = "done" /\ req[w].persisted) => ExchangeStored(w)

\* Both requests read the history before either wrote: neither history
\* holds the other's message, and both exchanges are stored, the one of w2
\* before the one of w1.
C27_Witness ==
    /\ \A w \in Workers :
          /\ req[w].pc = "done"
          /\ req[w].persisted
          /\ req[w].history_load = "rows"
          /\ req[w].history_rows # <<>>
          /\ ExchangeStored(w)
          /\ \A v \in Workers \ {w} :
                \A i \in 1..Len(req[w].history_rows) :
                    req[w].history_rows[i].content # PyStr(req[v].message)
    /\ \E u1, u2 \in chat_messages :
          /\ u1.content = PyStr(PairMessage["w1"])
          /\ u2.content = PyStr(PairMessage["w2"])
          /\ u2.created_at < u1.created_at

(***************************************************************************)
(* Properties of the deployment endpoints                                  *)
(***************************************************************************)

IsFailedCall(c) == c.raised

CallsOf(calls, op) == SelectSeq(calls, LAMBDA c : c.op = op)

NamesOf(entries) == [k \in DOMAIN entries |-> entries[k].name]

\* C28: once the cloud project is created, every database creation call is
\* issued before any service creation call; a creation that fails does not
\* end the deployment: it is appended to errors and the remaining entries
\* are still attempted, the response has success true, and the status
\* stored is "deployed" exactly when errors is empty and "partial" otherwise.
C28_DeployDatabasesFirstNoAbort ==
    dep.railway_project_id # <<>> =>
        /\ dep.pc # "failed"
        /\ \A i, j \in DOMAIN dep.calls :
              (dep.calls[i].op = "create_service" /\ dep.calls[j].op = "create_database")
                 => j < i
        /\ Len(dep.errors) = Len(SelectSeq(dep.calls, IsFailedCall))
        /\ \A k \in DOMAIN dep.errors :
              dep.errors[k][2] = SelectSeq(dep.calls, IsFailedCall)[k].name
        /\ dep.pc = "done" =>
              /\ NamesOf(CallsOf(dep.calls, "create_database"))
                    = NamesOf(dep.railway_config.databases)
              /\ NamesOf(CallsOf(dep.calls, "create_service"))
                    = NamesOf(dep.railway_config.services)
              /\ dep.status = 200
              /\ dep.response.success = TRUE
              /\ dep.response.errors = dep.errors
              /\ dep.stored =>
                    /\ projects[dep.projectId].deployment_metadata.errors = dep.errors
                    /\ projects[dep.projectId].deployment_metadata.status
                          = IF dep.errors = <<>> THEN "deployed" ELSE "partial"

\* A deployment whose first database failed, and which went on to create a
\* service, answered and stored the status "partial".
C28_Witness ==
    /\ dep.pc = "done"
    /\ dep.stored
    /\ Len(dep.calls) >= 3
    /\ dep.calls[2].op = "create_database"
    /\ dep.calls[2].raised
    /\ dep.deployed_services # <<>>
    /\ dep.response.success = TRUE
    /\ projects[dep.projectId].deployment_metadata.status = "partial"

\* C29: a status request with a well-formed identifier and a configured
\* store is answered 404 "Project not found" when the lookup returns no
\* data, {deployed: false} when the project has no deployment metadata, and
\* {deployed: true, metadata} when it has.
C29_StatusResponses ==
    (/\ stat.pc \in {"done", "failed"}
     /\ UuidParses(stat.projectId)
     /\ supabase # "none") =>
        /\ stat.lookup = "no_data" =>
              (stat.status = 404 /\ stat.detail = "project_not_found")
        /\ (/\ stat.lookup = "data"
            /\ projects[stat.projectId].deployment_metadata = PyNone) =>
              (stat.status = 200 /\ stat.response = [deployed |-> FALSE])
        /\ (/\ stat.lookup = "data"
            /\ projects[stat.projectId].deployment_metadata # PyNone) =>
              /\ stat.status = 200
              /\ stat.response =
                    [deployed |-> TRUE,
                     metadata |-> projects[stat.projectId].deployment_metadata]

\* C30: the store client exists only if SUPABASE_URL (starting with http),
\* SUPABASE_SERVICE_ROLE_KEY and GOOGLE_GEMINI_API_KEY are all set; so no
\* chat request is answered "Gemini API key is not configured", and with the
\* provider key missing a request with a well-formed identifier is answered
\* the store-not-configured 503 by the chat endpoint and by the two
\* deployment endpoints.
C30_ProviderKeyGatesStore ==
    /\ supabase # "none" =>
          /\ Env.SUPABASE_URL # <<>>
          /\ StartsWith(Env.SUPABASE_URL, HttpPrefix)
          /\ Env.SUPABASE_SERVICE_ROLE_KEY # <<>>
          /\ Env.GEMINI_API_KEY # <<>>
    /\ \A w \in Workers : req[w].detail # "gemini_not_configured"
    /\ Env.GEMINI_API_KEY = <<>> =>
          /\ \A w \in Workers :
                (/\ req[w].pc \notin {"idle", "validating", "rejected"}
                 /\ UuidParses(req[w].projectId)) =>
                    /\ req[w].pc = "failed"
                    /\ req[w].status = 503
                    /\ req[w].detail = "supabase_not_configured"
          /\ (dep.pc \notin {"idle", "validating"} /\ UuidParses(dep.projectId)) =>
                /\ dep.pc = "failed"
                /\ dep.status = 503
                /\ dep.detail = "supabase_not_configured"
          /\ (stat.pc \notin {"idle", "checking"} /\ UuidParses(stat.projectId)) =>
                /\ stat.pc = "failed"
                /\ stat.status = 503
                /\ stat.detail = "supabase_not_configured"

\* The two store settings are valid, only the provider key is missing, and
\* a chat request was answered the store-not-configured 503.
C30_Witness ==
    /\ StartsWith(Env.SUPABASE_URL, HttpPrefix)
    /\ Env.SUPABASE_SERVICE_ROLE_KEY # <<>>
    /\ Env.GEMINI_API_KEY = <<>>
    /\ \E w \in Workers :
          /\ req[w].pc = "failed"
          /\ req[w].status = 503
          /\ req[w].detail = "supabase_not_configured"

====
